---------------------------- MODULE Spec2Model ----------------------------
(***************************************************************************)
(* Verification model of the graphserver ETL programs:                     *)
(*   - JiraGitHubETL   (company-specific/etl/jira-github-integration)      *)
(*   - JiraETL         (etl/jira)                                          *)
(*   - CrossReferenceETL (etl/cross-reference)                             *)
(* The graph store is a multiset of nodes (label + natural key) with       *)
(* properties and a multiset of typed edges; Cypher MERGE / SET / MATCH    *)
(* are operators on it.  Texts are sequences of one-character strings so   *)
(* that substring tests, regular-expression scans and lower-casing are     *)
(* computed, not assumed.                                                  *)
(***************************************************************************)
EXTENDS Integers, Sequences, FiniteSets, TLC

VARIABLES
    upJira,          \* upstream issue tracker: the raw issues it holds
    upGithub,        \* upstream source control: the raw issues it holds
    includeClosed,   \* config processing.include_closed_with_open_deps
    pc,              \* position of the running program
    attempt,         \* attempt number of the running retry-wrapped call
    jira_issues,     \* run_full_sync local: result of _fetch_jira_issues
    github_issues,   \* run_full_sync local: result of _fetch_github_issues
    idx,             \* loop index of the running per-record loop
    nodes,           \* graph store: node id -> [cnt, p]
    edges,           \* graph store: <<type, src id, dst id>> -> count
    processed_items, \* JiraGitHubETL.processed_items
    pass,            \* number of the running pass (the store's clock)
    project_no,      \* JiraETL.run_etl: position of project_key in jira_projects
    page_start,      \* JiraETL.run_etl local start_at
    total_issues,    \* JiraETL.run_etl local total_issues
    stats,           \* CrossReferenceETL.stats
    hist             \* history of the runs (observation only)

\* the state of JiraETL and CrossReferenceETL alone
etl == <<project_no, page_start, total_issues, stats>>
\* the state of JiraGitHubETL alone
sync == <<upGithub, includeClosed, github_issues, processed_items, pass>>

vars == <<upJira, upGithub, includeClosed, pc, attempt, jira_issues,
          github_issues, idx, nodes, edges, processed_items, pass, project_no,
          page_start, total_issues, stats, hist>>

-----------------------------------------------------------------------------
(* Bounds of the model *)

MaxJira == 3
MaxGithub == 2
MaxPasses == 2
\* failures of the store injected into one run of CrossReferenceETL
MaxFaults == 3

-----------------------------------------------------------------------------
(* Texts *)

Upper == {"A", "B", "C", "P"}
Lower == {"a", "b", "c", "p", "o", "r", "s", "x"}
Digit == {"0", "1", "2", "3", "9"}
WordChar == Upper \cup Lower \cup Digit

ToLowerChar(c) ==
    CASE c = "A" -> "a"
      [] c = "B" -> "b"
      [] c = "C" -> "c"
      [] c = "P" -> "p"
      [] OTHER -> c

ToLower(t) == [i \in 1..Len(t) |-> ToLowerChar(t[i])]

\* Python `needle in hay` / Cypher CONTAINS
Contains(hay, needle) ==
    \E i \in 0..(Len(hay) - Len(needle)) :
        SubSeq(hay, i + 1, i + Len(needle)) = needle

\* last index of the maximal run of characters of class cls starting at i
\* (i - 1 when the run is empty)
RECURSIVE RunEnd(_, _, _)
RunEnd(t, i, cls) ==
    IF i <= Len(t) /\ t[i] \in cls THEN RunEnd(t, i + 1, cls) ELSE i - 1

\* end of the match of [A-Z]+-\d+ starting exactly at i, 0 when none
KeyMatchEnd(t, i) ==
    LET u == RunEnd(t, i, Upper)
        d == RunEnd(t, u + 2, Digit)
    IN  IF u >= i /\ u + 1 <= Len(t) /\ t[u + 1] = "-" /\ d >= u + 2
        THEN d ELSE 0

\* word boundary between positions i - 1 and i of t
Boundary(t, i) ==
    LET before == i > 1 /\ i - 1 <= Len(t) /\ t[i - 1] \in WordChar
        after  == i >= 1 /\ i <= Len(t) /\ t[i] \in WordChar
    IN  before # after

\* the alternatives of a configured technology pattern \b(w1|w2|..)\b
Alternatives(pattern) ==
    CASE pattern = "\\b(ab|p)\\b" -> << <<"a", "b">>, <<"p">> >>
      [] pattern = "\\b(x)\\b"    -> << <<"x">> >>
      [] OTHER -> << >>

\* end of the match of \b(w1|..)\b starting exactly at i, 0 when none
WordMatchEnd(t, i, alts) ==
    LET ok(k) == /\ i + Len(alts[k]) - 1 <= Len(t)
                 /\ SubSeq(t, i, i + Len(alts[k]) - 1) = alts[k]
                 /\ Boundary(t, i)
                 /\ Boundary(t, i + Len(alts[k]))
        hits == {k \in 1..Len(alts) : ok(k)}
    IN  IF hits = {} THEN 0
        ELSE LET k == CHOOSE k \in hits : \A j \in hits : k <= j
             IN  i + Len(alts[k]) - 1

\* end of the match of #(\d+) starting exactly at i, 0 when none
NumberMatchEnd(t, i) ==
    LET d == RunEnd(t, i + 1, Digit)
    IN  IF i <= Len(t) /\ t[i] = "#" /\ d >= i + 1 THEN d ELSE 0

MatchEnd(pattern, t, i) ==
    IF pattern = "[A-Z]+-\\d+" THEN KeyMatchEnd(t, i)
    ELSE IF pattern = "#(\\d+)" THEN NumberMatchEnd(t, i)
    ELSE WordMatchEnd(t, i, Alternatives(pattern))

RECURSIVE Flatten(_)
Flatten(ss) == IF ss = << >> THEN << >> ELSE Head(ss) \o Flatten(Tail(ss))

\* F applied to the value of x, which is computed once
Then(x, F(_)) == CHOOSE r \in {F(v) : v \in {x}} : TRUE

\* [F(x) for x in s] and its concatenation (UNWIND)
Map(s, F(_)) == [i \in 1..Len(s) |-> F(s[i])]
FlatMap(s, F(_)) == Flatten([i \in 1..Len(s) |-> F(s[i])])

\* re.findall / apoc.text.regexGroups(...)[..][0]: the whole matches, leftmost
\* first, non-overlapping, in text order
RECURSIVE FindAllFrom(_, _, _)
FindAllFrom(pattern, t, i) ==
    IF i > Len(t) THEN << >>
    ELSE Then(MatchEnd(pattern, t, i),
              LAMBDA e : IF e = 0 THEN FindAllFrom(pattern, t, i + 1)
                         ELSE <<SubSeq(t, i, e)>> \o FindAllFrom(pattern, t, e + 1))

FindAll(pattern, t) == FindAllFrom(pattern, t, 1)

\* apoc.text.regexGroups(t, pattern): per match, the whole match and then the
\* text of each group of the pattern
regexGroups(t, pattern) ==
    Map(FindAll(pattern, t),
        LAMBDA m : IF pattern = "[A-Z]+-\\d+" THEN <<m>>
                   ELSE IF pattern = "#(\\d+)" THEN <<m, Tail(m)>>
                   ELSE <<m, m>>)

\* str.split(sep) : the pieces of t between the sep characters
RECURSIVE SplitFrom(_, _, _, _)
SplitFrom(t, sep, i, cur) ==
    IF i > Len(t) THEN <<cur>>
    ELSE IF t[i] = sep THEN <<cur>> \o SplitFrom(t, sep, i + 1, << >>)
    ELSE SplitFrom(t, sep, i + 1, Append(cur, t[i]))

Split(t, sep) == SplitFrom(t, sep, 1, << >>)

\* str(n) and int(t) for the one-digit numbers of the model
IntToText(n) ==
    CASE n = 1 -> <<"1">> [] n = 2 -> <<"2">> [] n = 3 -> <<"3">>
      [] n = 9 -> <<"9">> [] OTHER -> <<"0">>

TextToInt(t) ==
    CASE t = <<"1">> -> 1 [] t = <<"2">> -> 2 [] t = <<"3">> -> 3
      [] t = <<"9">> -> 9 [] OTHER -> 0

SP == <<" ">>

-----------------------------------------------------------------------------
(* Graph store: Cypher primitives *)

\* node ids: <<label, key text, number>> (number 0 when the key has none)
JiraId(key)          == <<"JiraIssue", key, 0>>
ProjectId(key)       == <<"JiraProject", key, 0>>
GitHubId(repo, n)    == <<"GitHubIssue", repo, n>>
RepoId(fullName)     == <<"GitHubRepository", fullName, 0>>
OrgId(name)          == <<"GitHubOrganization", name, 0>>
TechId(name)         == <<"Technology", name, 0>>
ComponentId(name)    == <<"Component", name, 0>>

EmptyGraph == [nodes |-> << >>, edges |-> << >>]

\* some enumeration of a finite set
RECURSIVE SetToSeq(_)
SetToSeq(S) ==
    IF S = {} THEN << >>
    ELSE LET x == CHOOSE x \in S : TRUE IN <<x>> \o SetToSeq(S \ {x})

\* a SET that leaves a property that already has a value as it is
KeepProps(old, new) ==
    [f \in (DOMAIN old) \cup (DOMAIN new) |->
        IF f \in DOMAIN old THEN old[f] ELSE new[f]]

\* a SET that overwrites the scalar properties and leaves a list property
\* that already has a value as it is
KeepListProps(old, new) ==
    [f \in (DOMAIN old) \cup (DOMAIN new) |->
        IF f \in DOMAIN new /\ ~(f \in {"labels", "components"} /\ f \in DOMAIN old)
        THEN new[f] ELSE old[f]]

\* SET n.f = v, ... : the named properties are overwritten, the others kept
SetProps(old, new) ==
    [f \in (DOMAIN old) \cup (DOMAIN new) |->
        IF f \in DOMAIN new THEN new[f] ELSE old[f]]

\* CREATE in place of MERGE: a node is added whether or not one matches
CreateNode(ns, id) ==
    IF id \in DOMAIN ns THEN [ns EXCEPT ![id].cnt = @ + 1]
    ELSE ns @@ (id :> [cnt |-> 1, p |-> << >>])

\* MERGE (n:Label {key}) : the node is created only when none matches
MergeNode(ns, id) ==
    IF id \in DOMAIN ns THEN ns ELSE ns @@ (id :> [cnt |-> 1, p |-> << >>])

SetNode(ns, id, props) ==
    [ns EXCEPT ![id] = [cnt |-> @.cnt, p |-> SetProps(@.p, props)]]

\* an edge that takes the place of the edges of its type from its start node
ReplaceEdge(es, e) ==
    [x \in {y \in DOMAIN es : ~(y[1] = e[1] /\ y[2] = e[2])} \cup {e} |-> 1]

\* CREATE in place of MERGE: an edge is added whether or not one exists
CreateEdge(es, e) ==
    IF e \in DOMAIN es THEN [es EXCEPT ![e] = @ + 1] ELSE es @@ (e :> 1)

\* MERGE (a)-[:T]->(b) between two bound nodes
MergeEdge(es, e) ==
    IF e \in DOMAIN es THEN es ELSE es @@ (e :> 1)

RECURSIVE MergeEdges(_, _)
MergeEdges(es, list) ==
    IF list = << >> THEN es
    ELSE LET rest(v) == MergeEdges(v, Tail(list))
         IN  Then(MergeEdge(es, Head(list)), rest)

NodesOf(ns, label) == {id \in DOMAIN ns : id[1] = label}

-----------------------------------------------------------------------------
(* JiraGitHubETL: configuration of the modelled deployment *)

K1 == <<"P", "-", "1">>
K2 == <<"P", "-", "2">>
K3 == <<"P", "-", "3">>
R1 == <<"o", "/", "r">>
R2 == <<"o", "/", "s">>

\* config processing.jira_reference_patterns
jira_reference_patterns == << "[A-Z]+-\\d+" >>
\* config processing.technology_patterns
technology_patterns == << "\\b(ab|p)\\b", "\\b(x)\\b" >>
\* config processing.component_mapping
component_mapping ==
    << [component |-> <<"C">>, keywords |-> << <<"A", "b">> >>],
       [component |-> <<"c">>, keywords |-> << <<"r">> >>] >>
\* config github.repositories (category -> repositories); collection_orgs is empty
repositories == << [category |-> "core", repos |-> <<R1, R2>>] >>
\* config github.filters.labels_exclude
labels_exclude == {"wontfix"}

AAPRFE == <<"A", "A", "P">>
ANSTRAT == <<"A", "B">>

-----------------------------------------------------------------------------
(* JiraGitHubETL: upstream data *)

Raise == [raised |-> TRUE]
Raised(x) == "raised" \in DOMAIN x

JBase ==
    [key |-> K1, summary |-> << >>, description |-> << >>, status |-> "Open",
     priority |-> "Major", issuetype |-> "Story", project |-> <<"P">>,
     created |-> 1, updated |-> 1, assignee |-> "ann", reporter |-> "bob",
     labels |-> << >>, components |-> << >>]

\* the raw issues the tracker may hold, in the order in which it answers;
\* the last one has no key
JiraPool ==
    << [JBase EXCEPT !.status = "Closed"],
       [JBase EXCEPT !.key = K2, !.description = <<"x", " ", "a", "b", " ">> \o K1,
                     !.labels = << <<"x">> >>, !.components = << <<"x">> >>],
       [JBase EXCEPT !.key = K3, !.status = "Closed", !.project = AAPRFE],
       [summary |-> << >>, description |-> K1, status |-> "Open"] >>

\* P-2 after its reporter has edited it
JiraEdited ==
    [JBase EXCEPT !.key = K2, !.summary = K1, !.description = <<"A", "B">>,
                  !.components = << <<"A", "B">> >>, !.updated = 2]

GBase ==
    [repository |-> R1, number |-> 1, title |-> << >>, body |-> << >>,
     state |-> "open", created |-> 1, updated |-> 1, author |-> "ann",
     url |-> "u1", labels |-> << >>, pull_request |-> FALSE]

\* the raw issues source control may hold, in the order in which it answers
GithubPool ==
    << [GBase EXCEPT !.body = K1 \o SP \o K1],
       [GBase EXCEPT !.number = 2, !.labels = <<"wontfix">>],
       [GBase EXCEPT !.repository = R2, !.title = <<"P", "-", "9">>,
                     !.body = <<"A", "B", " ", "x">>] >>

\* o/r#1 after its author has edited it
GithubEdited ==
    [GBase EXCEPT !.title = <<"a", "b">>, !.body = K2, !.updated = 2]

\* the sub-sequences of s
RECURSIVE SubSeqs(_)
SubSeqs(s) ==
    IF s = << >> THEN { << >> }
    ELSE LET rest == SubSeqs(Tail(s))
         IN  rest \cup { <<Head(s)>> \o t : t \in rest }

JiraUpstreams == {s \in SubSeqs(JiraPool) : Len(s) <= MaxJira}
GithubUpstreams == {s \in SubSeqs(GithubPool) : Len(s) <= MaxGithub}

\* an edit of the upstream records that have an edited form (and back)
EditJira(r) ==
    IF r = JiraPool[2] THEN JiraEdited
    ELSE IF r = JiraEdited THEN JiraPool[2] ELSE r

EditGithub(r) ==
    IF r = GithubPool[1] THEN GithubEdited
    ELSE IF r = GithubEdited THEN GithubPool[1] ELSE r

-----------------------------------------------------------------------------
(* JiraGitHubETL: extraction *)

\* config jira.batch_size and github.batch_size of the modelled deployment
jira_batch_size == 1
github_batch_size == 2

IsClosed(raw) == raw.status = "Closed"

\* the tracker's answer to jql_filters.open_items / jql_filters.recent_closed
OpenMatches(up) == SelectSeq(up, LAMBDA r : ~IsClosed(r))
ClosedMatches(up) == SelectSeq(up, IsClosed)

\* jira.search_issues(jql, startAt, maxResults): the page of at most
\* maxResults matches from startAt on; with a maxResults that evaluates as
\* false the client fetches every match from startAt on
search_issues(matches, startAt, maxResults) ==
    SubSeq(matches, startAt + 1,
           IF maxResults # 0 /\ startAt + maxResults < Len(matches)
           THEN startAt + maxResults ELSE Len(matches))

Opt(raw, f, default) == IF f \in DOMAIN raw THEN raw[f] ELSE default

_convert_jira_issue(raw) ==
    IF {"key", "summary", "status", "issuetype", "project", "created",
        "updated"} \subseteq DOMAIN raw
    THEN [key |-> raw.key,
          summary |-> raw.summary,
          description |-> Opt(raw, "description", << >>),
          status |-> raw.status,
          priority |-> Opt(raw, "priority", "Undefined"),
          issue_type |-> raw.issuetype,
          project |-> raw.project,
          created |-> raw.created,
          updated |-> raw.updated,
          assignee |-> Opt(raw, "assignee", "Unassigned"),
          reporter |-> Opt(raw, "reporter", "Unknown"),
          labels |-> Opt(raw, "labels", << >>),
          components |-> Opt(raw, "components", << >>)]
    ELSE Raise

\* the page loop of _fetch_jira_batch from start_at on, issues fetched so far;
\* the returned list is [issues |-> ..], an exception is Raise
RECURSIVE FetchJiraBatchFrom(_, _, _)
FetchJiraBatchFrom(matches, start_at, issues) ==
    LET batch == search_issues(matches, start_at, jira_batch_size)
        converted == [i \in 1..Len(batch) |-> _convert_jira_issue(batch[i])]
    IN  IF batch = << >> THEN [issues |-> issues]
        ELSE IF \E i \in 1..Len(batch) : Raised(converted[i]) THEN Raise
        ELSE IF Len(batch) < jira_batch_size THEN [issues |-> issues \o converted]
        ELSE FetchJiraBatchFrom(matches, start_at + jira_batch_size,
                                issues \o converted)

_fetch_jira_batch(matches) == FetchJiraBatchFrom(matches, 0, << >>)

\* the calls the page loop of _fetch_jira_batch makes from start_at on, in
\* order: "search" for jira.search_issues, "sleep" for
\* time.sleep(rate_limit_delay)
RECURSIVE BatchStepsFrom(_, _)
BatchStepsFrom(matches, start_at) ==
    LET batch == search_issues(matches, start_at, jira_batch_size)
    IN  IF batch = << >> THEN <<"search">>
        ELSE IF \E i \in 1..Len(batch) : Raised(_convert_jira_issue(batch[i]))
        THEN <<"search">>
        ELSE IF Len(batch) < jira_batch_size THEN <<"search", "sleep">>
        ELSE <<"search", "sleep">>
             \o BatchStepsFrom(matches, start_at + jira_batch_size)

\* the filter without its test of the option
FilterIgnoringOption(closed_issues, open_issues, flag) ==
    SelectSeq(closed_issues,
              LAMBDA c : \E i \in 1..Len(open_issues) :
                            Contains(open_issues[i].description, c.key))

_filter_closed_with_open_deps(closed_issues, open_issues, flag) ==
    IF ~flag THEN << >>
    ELSE SelectSeq(closed_issues,
                   LAMBDA c : \E i \in 1..Len(open_issues) :
                                 Contains(open_issues[i].description, c.key))

\* _fetch_jira_issues extending all_issues by recent_closed, unfiltered
FetchJiraUnfiltered(up, flag) ==
    LET open_issues == _fetch_jira_batch(OpenMatches(up))
        recent_closed == _fetch_jira_batch(ClosedMatches(up))
    IN  IF Raised(open_issues) \/ Raised(recent_closed) THEN Raise
        ELSE [issues |-> open_issues.issues \o recent_closed.issues]

\* one attempt of _fetch_jira_issues against a tracker that answers
_fetch_jira_issues(up, flag) ==
    LET open_issues == _fetch_jira_batch(OpenMatches(up))
        recent_closed == _fetch_jira_batch(ClosedMatches(up))
    IN  IF Raised(open_issues) \/ Raised(recent_closed) THEN Raise
        ELSE [issues |-> open_issues.issues \o
                _filter_closed_with_open_deps(recent_closed.issues,
                                              open_issues.issues, flag)]

_convert_github_issue(raw, repo_name) ==
    [repository |-> repo_name,
     number |-> raw.number,
     title |-> raw.title,
     body |-> raw.body,
     state |-> raw.state,
     created |-> raw.created,
     updated |-> raw.updated,
     author |-> raw.author,
     url |-> raw.url,
     labels |-> raw.labels,
     organization |-> Split(repo_name, "/")[1],
     issue_type |-> IF raw.pull_request THEN "pull_request" ELSE "issue"]

\* the loop of _fetch_github_repo_issues over the repository's open issues
RECURSIVE FetchRepoFrom(_, _, _, _)
FetchRepoFrom(raws, i, repo_name, issues) ==
    IF i > Len(raws) THEN issues
    ELSE IF \E k \in 1..Len(raws[i].labels) : raws[i].labels[k] \in labels_exclude
    THEN FetchRepoFrom(raws, i + 1, repo_name, issues)
    ELSE LET more == Append(issues, _convert_github_issue(raws[i], repo_name))
         IN  IF Len(more) >= github_batch_size THEN more
             ELSE FetchRepoFrom(raws, i + 1, repo_name, more)

_fetch_github_repo_issues(up, repo_name) ==
    FetchRepoFrom(SelectSeq(up, LAMBDA r : r.repository = repo_name
                                           /\ r.state = "open"),
                  1, repo_name, << >>)

ConfiguredRepos ==
    UNION { {c.repos[i] : i \in 1..Len(c.repos)} :
            c \in {repositories[k] : k \in 1..Len(repositories)} }

RECURSIVE FetchReposFrom(_, _, _)
FetchReposFrom(up, repos, failing) ==
    IF repos = << >> THEN << >>
    ELSE (IF Head(repos) \in failing THEN << >>
          ELSE _fetch_github_repo_issues(up, Head(repos)))
         \o FetchReposFrom(up, Tail(repos), failing)

RECURSIVE FetchCategoriesFrom(_, _, _)
FetchCategoriesFrom(up, cats, failing) ==
    IF cats = << >> THEN << >>
    ELSE FetchReposFrom(up, Head(cats).repos, failing)
         \o FetchCategoriesFrom(up, Tail(cats), failing)

\* _fetch_github_issues when the repositories in `failing` raise on fetch
_fetch_github_issues(up, failing) ==
    FetchCategoriesFrom(up, repositories, failing)

-----------------------------------------------------------------------------
(* JiraGitHubETL: load *)

ProjectName(project) ==
    CASE project = AAPRFE -> <<"R", "F", "E", "s">>
      [] project = ANSTRAT -> <<"S", "t", "r", "a", "t">>
      [] OTHER -> project

\* the transaction function _create_jira_issue on graph g at store time now
_create_jira_issue(g, issue, now) ==
    LET j  == JiraId(issue.key)
        pr == ProjectId(issue.project)
        n1 == MergeNode(g.nodes, j)
        n2 == SetNode(n1, j,
                [summary |-> issue.summary,
                 description |-> issue.description,
                 status |-> issue.status,
                 priority |-> issue.priority,
                 issueType |-> issue.issue_type,
                 project |-> issue.project,
                 created |-> issue.created,
                 updated |-> issue.updated,
                 assignee |-> issue.assignee,
                 reporter |-> issue.reporter,
                 labels |-> issue.labels,
                 components |-> issue.components,
                 lastSynced |-> now])
        n3 == MergeNode(n2, pr)
        n4 == SetNode(n3, pr, [name |-> ProjectName(issue.project)])
    IN  [nodes |-> n4, edges |-> MergeEdge(g.edges, <<"BELONGS_TO", j, pr>>)]

ANSIBLE_COLLECTIONS == <<"a", "c">>

_get_repo_category(repo_name) ==
    LET hits == {k \in 1..Len(repositories) :
                    \E i \in 1..Len(repositories[k].repos) :
                        repositories[k].repos[i] = repo_name}
    IN  IF hits # {}
        THEN repositories[CHOOSE k \in hits : \A m \in hits : k <= m].category
        ELSE IF Contains(repo_name, ANSIBLE_COLLECTIONS) THEN "collections"
        ELSE "other"

\* the transaction function _create_github_issue
_create_github_issue(g, issue, now) ==
    LET gi == GitHubId(issue.repository, issue.number)
        r  == RepoId(issue.repository)
        o  == OrgId(issue.organization)
        n1 == MergeNode(g.nodes, gi)
        n2 == SetNode(n1, gi,
                [title |-> issue.title,
                 body |-> issue.body,
                 state |-> issue.state,
                 created |-> issue.created,
                 updated |-> issue.updated,
                 author |-> issue.author,
                 url |-> issue.url,
                 labels |-> issue.labels,
                 organization |-> issue.organization,
                 type |-> issue.issue_type,
                 lastSynced |-> now])
        n3 == MergeNode(n2, r)
        n4 == SetNode(n3, r,
                [name |-> Split(issue.repository, "/")[2],
                 owner |-> issue.organization,
                 category |-> _get_repo_category(issue.repository)])
        n5 == MergeNode(n4, o)
        e1 == MergeEdge(g.edges, <<"BELONGS_TO", gi, r>>)
    IN  [nodes |-> n5, edges |-> MergeEdge(e1, <<"OWNED_BY", r, o>>)]

Coalesce(props, f) == IF f \in DOMAIN props THEN props[f] ELSE << >>

\* the rows the cross-reference query of one pattern binds: one <<g, j>> per
\* match of the pattern in g's text whose whole match is the key of a JiraIssue
RECURSIVE XrefRows(_, _, _)
XrefRows(ns, pattern, gs) ==
    IF gs = << >> THEN << >>
    ELSE LET gi == Head(gs)
             text == Coalesce(ns[gi].p, "body") \o SP \o Coalesce(ns[gi].p, "title")
             refs == FindAll(pattern, text)
             hits == SelectSeq(refs, LAMBDA k : JiraId(k) \in DOMAIN ns)
         IN  [i \in 1..Len(hits) |-> <<gi, JiraId(hits[i])>>]
             \o XrefRows(ns, pattern, Tail(gs))

RECURSIVE XrefMerge(_, _)
XrefMerge(es, rows) ==
    IF rows = << >> THEN es
    ELSE LET a == Head(rows)[1]
             b == Head(rows)[2]
         IN  XrefMerge(MergeEdge(MergeEdge(es, <<"ADDRESSES", a, b>>),
                                 <<"TRACKED_IN", b, a>>),
                       Tail(rows))

\* the transaction function _create_cross_references: [g, links_created]
RECURSIVE CrossRefsFrom(_, _, _)
CrossRefsFrom(g, patterns, links_created) ==
    IF patterns = << >> THEN [g |-> g, links_created |-> links_created]
    ELSE LET rows == XrefRows(g.nodes, Head(patterns),
                              SetToSeq(NodesOf(g.nodes, "GitHubIssue")))
         IN  CrossRefsFrom([nodes |-> g.nodes, edges |-> XrefMerge(g.edges, rows)],
                           Tail(patterns), links_created + Len(rows))

_create_cross_references(g) == CrossRefsFrom(g, jira_reference_patterns, 0)

\* a technology query that MERGEs the Technology node before it looks for the item
TechLinkUnmatched(g, item, techName) ==
    IF item \notin DOMAIN g.nodes
    THEN [nodes |-> MergeNode(g.nodes, TechId(techName)), edges |-> g.edges]
    ELSE [nodes |-> MergeNode(g.nodes, TechId(techName)),
          edges |-> MergeEdge(g.edges, <<"INVOLVES", item, TechId(techName)>>)]

\* one query of _create_technology_link on the item with node id `item`
TechLinkQuery(g, item, techName) ==
    IF item \notin DOMAIN g.nodes THEN g
    ELSE [nodes |-> MergeNode(g.nodes, TechId(techName)),
          edges |-> MergeEdge(g.edges, <<"INVOLVES", item, TechId(techName)>>)]

_create_technology_link(g, node_type, node_id, tech_name) ==
    IF node_type = "JiraIssue"
    THEN TechLinkQuery(g, JiraId(node_id), ToLower(tech_name))
    ELSE LET parts == Split(node_id, "#")
         IN  IF Len(parts) # 2 THEN Raise
             ELSE TechLinkQuery(g, GitHubId(parts[1], TextToInt(parts[2])),
                                ToLower(tech_name))

RECURSIVE TechLinks(_, _, _, _)
TechLinks(g, node_type, node_id, matches) ==
    IF matches = << >> \/ Raised(g) THEN g
    ELSE TechLinks(_create_technology_link(g, node_type, node_id, Head(matches)),
                   node_type, node_id, Tail(matches))

\* the candidates of one text when the last pattern is visited first
RECURSIVE TechMatchesLastFirst(_, _)
TechMatchesLastFirst(text, patterns) ==
    IF patterns = << >> THEN << >>
    ELSE TechMatchesLastFirst(text, Tail(patterns)) \o FindAll(Head(patterns), text)

\* the candidates of one text: per pattern in order, its matches in text order
RECURSIVE TechMatches(_, _)
TechMatches(text, patterns) ==
    IF patterns = << >> THEN << >>
    ELSE FindAll(Head(patterns), text) \o TechMatches(text, Tail(patterns))

RECURSIVE TechJira(_, _)
TechJira(g, issues) ==
    IF issues = << >> \/ Raised(g) THEN g
    ELSE LET issue == Head(issues)
             text == ToLower(issue.summary \o SP \o issue.description)
         IN  TechJira(TechLinks(g, "JiraIssue", issue.key,
                                TechMatches(text, technology_patterns)),
                      Tail(issues))

\* the loop over github_issues when the text is matched as it was written
RECURSIVE TechGithubAsWritten(_, _)
TechGithubAsWritten(g, issues) ==
    IF issues = << >> \/ Raised(g) THEN g
    ELSE LET issue == Head(issues)
             text == issue.title \o SP \o issue.body
         IN  TechGithubAsWritten(
                TechLinks(g, "GitHubIssue",
                          issue.repository \o <<"#">> \o IntToText(issue.number),
                          TechMatches(text, technology_patterns)),
                Tail(issues))

RECURSIVE TechGithub(_, _)
TechGithub(g, issues) ==
    IF issues = << >> \/ Raised(g) THEN g
    ELSE LET issue == Head(issues)
             text == ToLower(issue.title \o SP \o issue.body)
         IN  TechGithub(TechLinks(g, "GitHubIssue",
                                  issue.repository \o <<"#">> \o IntToText(issue.number),
                                  TechMatches(text, technology_patterns)),
                        Tail(issues))

\* the transaction function _extract_technologies
_extract_technologies(g, jiras, githubs) == TechGithub(TechJira(g, jiras), githubs)

JiraMatchesKeyword(props, keyword) ==
    \/ \E i \in 1..Len(props.components) : Contains(ToLower(props.components[i]), keyword)
    \/ Contains(ToLower(props.summary), keyword)
    \/ Contains(ToLower(props.description), keyword)

RepoMatchesKeyword(id, props, keyword) ==
    \/ Contains(ToLower(props.name), keyword)
    \/ Contains(ToLower(id[2]), keyword)

\* MERGE (c:Component {name}) MERGE (x)-[:T]->(c) for each bound row x
RECURSIVE ComponentMerge(_, _, _, _)
ComponentMerge(g, type, rows, component) ==
    IF rows = << >> THEN g
    ELSE LET rest(v) == ComponentMerge(v, type, Tail(rows), component)
         IN  Then([nodes |-> MergeNode(g.nodes, ComponentId(component)),
                   edges |-> MergeEdge(g.edges,
                                <<type, Head(rows), ComponentId(component)>>)],
                  rest)

\* the two queries of _create_component_relationships for one keyword
ComponentKeyword(g, component, keyword) ==
    LET kw == ToLower(keyword)
        js == {id \in NodesOf(g.nodes, "JiraIssue") :
                  JiraMatchesKeyword(g.nodes[id].p, kw)}
        g1 == ComponentMerge(g, "AFFECTS", SetToSeq(js), component)
        rs == {id \in NodesOf(g1.nodes, "GitHubRepository") :
                  RepoMatchesKeyword(id, g1.nodes[id].p, kw)}
    IN  ComponentMerge(g1, "IMPLEMENTS", SetToSeq(rs), component)

RECURSIVE ComponentKeywords(_, _, _)
ComponentKeywords(g, component, keywords) ==
    IF keywords = << >> THEN g
    ELSE ComponentKeywords(ComponentKeyword(g, component, Head(keywords)),
                           component, Tail(keywords))

RECURSIVE ComponentsFrom(_, _)
ComponentsFrom(g, mapping) ==
    IF mapping = << >> THEN g
    ELSE ComponentsFrom(
            ComponentKeywords(g, Head(mapping).component, Head(mapping).keywords),
            Tail(mapping))

\* the transaction function _create_component_relationships
_create_component_relationships(g) == ComponentsFrom(g, component_mapping)

-----------------------------------------------------------------------------
(* JiraGitHubETL.run_full_sync: one process run per pass *)

\* @retry(stop_max_attempt_number=3, ...) on _fetch_jira_issues
stop_max_attempt_number == 3

\* wait_exponential_multiplier=1000 of the same decorator: the milliseconds
\* retrying sleeps after attempt previous_attempt_number has failed
\* (wait_exponential_max keeps its default, which 1000 * 2^3 does not reach)
exponential_sleep(previous_attempt_number) == 1000 * 2^previous_attempt_number

Graph == [nodes |-> nodes, edges |-> edges]

NoHist ==
    [curStart |-> EmptyGraph, prevOutcome |-> "none",
     prevStart |-> EmptyGraph, prevJira |-> << >>, prevGithub |-> << >>,
     jiraTransient |-> 0, jiraAttempts |-> 0, jiraWaits |-> << >>,
     failedAt |-> "none",
     outcome |-> "none"]

Init ==
    /\ upJira \in JiraUpstreams
    /\ upGithub \in GithubUpstreams
    /\ includeClosed \in BOOLEAN
    /\ pc = "idle"
    /\ attempt = 0
    /\ jira_issues = << >>
    /\ github_issues = << >>
    /\ idx = 0
    /\ nodes = << >>
    /\ edges = << >>
    /\ processed_items = [jira |-> 0, github |-> 0, links |-> 0]
    /\ pass = 0
    /\ project_no = 0 /\ page_start = 0 /\ total_issues = 0 /\ stats = << >>
    /\ hist = NoHist

\* lastSynced = datetime() is kept relative to the start of the running pass:
\* "this_pass" or, once a later pass has started, "earlier"
Elapse(ns) ==
    [id \in DOMAIN ns |->
        IF "lastSynced" \in DOMAIN ns[id].p
        THEN [ns[id] EXCEPT !.p = SetProps(@, [lastSynced |-> "earlier"])]
        ELSE ns[id]]

\* the scheduler starts main(): __init__, then run_full_sync
StartPass ==
    /\ pc \in {"idle", "done", "failed"}
    /\ pass < MaxPasses
    /\ pass' = pass + 1
    /\ pc' = "fetch_jira"
    /\ attempt' = 1
    /\ jira_issues' = << >>
    /\ github_issues' = << >>
    /\ idx' = 0
    /\ processed_items' = [jira |-> 0, github |-> 0, links |-> 0]
    /\ nodes' = Elapse(nodes)
    /\ hist' = [curStart |-> [nodes |-> Elapse(nodes), edges |-> edges],
                prevOutcome |-> hist.outcome,
                prevStart |-> hist.curStart,
                prevJira |-> jira_issues,
                prevGithub |-> github_issues,
                jiraTransient |-> 0, jiraAttempts |-> 0, jiraWaits |-> << >>,
     failedAt |-> "none",
                outcome |-> "none"]
    /\ UNCHANGED <<etl, upJira, upGithub, includeClosed, edges>>

\* between two passes (the process has exited) the upstream records are edited
UpstreamChange ==
    /\ pc \in {"done", "failed"}
    /\ pass < MaxPasses
    /\ pc' = "idle"
    /\ upJira' = [i \in 1..Len(upJira) |-> EditJira(upJira[i])]
    /\ upGithub' = [i \in 1..Len(upGithub) |-> EditGithub(upGithub[i])]
    /\ <<upJira', upGithub'>> # <<upJira, upGithub>>
    /\ UNCHANGED <<etl, includeClosed, attempt, jira_issues, github_issues, idx,
                   nodes, edges, processed_items, pass, hist>>

\* an attempt of _fetch_jira_issues ended by an exception: the retry wrapper
\* starts the next attempt, or re-raises after the last one
JiraAttemptRaised(transient) ==
    /\ hist' = [hist EXCEPT !.jiraAttempts = @ + 1,
                            !.jiraTransient = @ + (IF transient THEN 1 ELSE 0),
                            !.jiraWaits = IF attempt < stop_max_attempt_number
                                          THEN Append(@, exponential_sleep(attempt))
                                          ELSE @,
                            !.failedAt = IF attempt < stop_max_attempt_number
                                         THEN @ ELSE "fetch_jira",
                            !.outcome = IF attempt < stop_max_attempt_number
                                        THEN @ ELSE "failed"]
    /\ IF attempt < stop_max_attempt_number
       THEN attempt' = attempt + 1 /\ pc' = pc
       ELSE attempt' = attempt /\ pc' = "failed"
    /\ UNCHANGED <<etl, upJira, upGithub, includeClosed, jira_issues, github_issues,
                   idx, nodes, edges, processed_items, pass>>

\* the tracker does not answer a search_issues call (network error, timeout)
FetchJiraTransient ==
    /\ pc = "fetch_jira"
    /\ JiraAttemptRaised(TRUE)

\* the tracker answers every page, and a record of a page does not convert
FetchJiraMalformed ==
    /\ pc = "fetch_jira"
    /\ Raised(_fetch_jira_issues(upJira, includeClosed))
    /\ JiraAttemptRaised(FALSE)

FetchJiraOk ==
    /\ pc = "fetch_jira"
    /\ ~Raised(_fetch_jira_issues(upJira, includeClosed))
    /\ jira_issues' = _fetch_jira_issues(upJira, includeClosed).issues
    /\ pc' = "fetch_github"
    /\ attempt' = 1
    /\ hist' = [hist EXCEPT !.jiraAttempts = @ + 1]
    /\ UNCHANGED <<etl, upJira, upGithub, includeClosed, github_issues, idx, nodes,
                   edges, processed_items, pass>>

\* _fetch_github_issues: a repository whose fetch raises is logged and skipped
FetchGithub ==
    /\ pc = "fetch_github"
    /\ \E failing \in SUBSET ConfiguredRepos :
          github_issues' = _fetch_github_issues(upGithub, failing)
    /\ pc' = "load_jira"
    /\ idx' = 1
    /\ UNCHANGED <<etl, upJira, upGithub, includeClosed, attempt, jira_issues, nodes,
                   edges, processed_items, pass, hist>>

Commit(g) == nodes' = g.nodes /\ edges' = g.edges

\* _load_to_neo4j: for issue in jira_issues
LoadJira ==
    /\ pc = "load_jira"
    /\ idx <= Len(jira_issues)
    /\ Commit(_create_jira_issue(Graph, jira_issues[idx], "this_pass"))
    /\ processed_items' = [processed_items EXCEPT !.jira = @ + 1]
    /\ idx' = idx + 1
    /\ UNCHANGED <<etl, upJira, upGithub, includeClosed, pc, attempt, jira_issues,
                   github_issues, pass, hist>>

LoadJiraExit ==
    /\ pc = "load_jira"
    /\ idx > Len(jira_issues)
    /\ pc' = "load_github"
    /\ idx' = 1
    /\ UNCHANGED <<etl, upJira, upGithub, includeClosed, attempt, jira_issues,
                   github_issues, nodes, edges, processed_items, pass, hist>>

\* _load_to_neo4j: for issue in github_issues
LoadGithub ==
    /\ pc = "load_github"
    /\ idx <= Len(github_issues)
    /\ Commit(_create_github_issue(Graph, github_issues[idx], "this_pass"))
    /\ processed_items' = [processed_items EXCEPT !.github = @ + 1]
    /\ idx' = idx + 1
    /\ UNCHANGED <<etl, upJira, upGithub, includeClosed, pc, attempt, jira_issues,
                   github_issues, pass, hist>>

LoadGithubExit ==
    /\ pc = "load_github"
    /\ idx > Len(github_issues)
    /\ pc' = "xref"
    /\ idx' = 0
    /\ UNCHANGED <<etl, upJira, upGithub, includeClosed, attempt, jira_issues,
                   github_issues, nodes, edges, processed_items, pass, hist>>

CrossReferences ==
    /\ pc = "xref"
    /\ LET r == _create_cross_references(Graph)
       IN  /\ Commit(r.g)
           /\ processed_items' = [processed_items EXCEPT !.links = r.links_created]
    /\ pc' = "tech"
    /\ UNCHANGED <<etl, upJira, upGithub, includeClosed, attempt, jira_issues,
                   github_issues, idx, pass, hist>>

Technologies ==
    /\ pc = "tech"
    /\ LET g == _extract_technologies(Graph, jira_issues, github_issues)
       IN  IF Raised(g)
           THEN /\ pc' = "failed"
                /\ hist' = [hist EXCEPT !.failedAt = "tech", !.outcome = "failed"]
                /\ UNCHANGED <<nodes, edges>>
           ELSE /\ pc' = "comp"
                /\ Commit(g)
                /\ UNCHANGED hist
    /\ UNCHANGED <<etl, upJira, upGithub, includeClosed, attempt, jira_issues,
                   github_issues, idx, processed_items, pass>>

Components ==
    /\ pc = "comp"
    /\ Commit(_create_component_relationships(Graph))
    /\ pc' = "cleanup"
    /\ UNCHANGED <<etl, upJira, upGithub, includeClosed, attempt, jira_issues,
                   github_issues, idx, processed_items, pass, hist>>

\* _cleanup_stale_data calls the store's procedure cleanupStaleData, which is
\* not part of the repository; the model's graph is left as it is
Cleanup ==
    /\ pc = "cleanup"
    /\ pc' = "done"
    /\ hist' = [hist EXCEPT !.outcome = "done"]
    /\ UNCHANGED <<etl, upJira, upGithub, includeClosed, attempt, jira_issues,
                   github_issues, idx, nodes, edges, processed_items, pass>>

InWrite ==
    \/ pc = "load_jira" /\ idx <= Len(jira_issues)
    \/ pc = "load_github" /\ idx <= Len(github_issues)
    \/ pc \in {"xref", "tech", "comp", "cleanup"}

\* session.execute_write raises (the store rejects the transaction, which is
\* rolled back): nothing in _load_to_neo4j or run_full_sync catches it
WriteFails ==
    /\ InWrite
    /\ pc' = "failed"
    /\ hist' = [hist EXCEPT !.failedAt = pc, !.outcome = "failed"]
    /\ UNCHANGED <<etl, upJira, upGithub, includeClosed, attempt, jira_issues,
                   github_issues, idx, nodes, edges, processed_items, pass>>

Next ==
    \/ StartPass
    \/ UpstreamChange
    \/ FetchJiraTransient
    \/ FetchJiraMalformed
    \/ FetchJiraOk
    \/ FetchGithub
    \/ LoadJira
    \/ LoadJiraExit
    \/ LoadGithub
    \/ LoadGithubExit
    \/ CrossReferences
    \/ Technologies
    \/ Components
    \/ Cleanup
    \/ WriteFails

Spec == Init /\ [][Next]_vars

-----------------------------------------------------------------------------
(* JiraGitHubETL: the load stage as one uninterrupted run *)

RECURSIVE LoadJiraAll(_, _)
LoadJiraAll(g, issues) ==
    IF issues = << >> THEN g
    ELSE LoadJiraAll(_create_jira_issue(g, Head(issues), "this_pass"), Tail(issues))

RECURSIVE LoadGithubAll(_, _)
LoadGithubAll(g, issues) ==
    IF issues = << >> THEN g
    ELSE LoadGithubAll(_create_github_issue(g, Head(issues), "this_pass"), Tail(issues))

\* _load_to_neo4j when no transaction fails
_load_to_neo4j(g, jiras, githubs) ==
    LET g1 == LoadGithubAll(LoadJiraAll(g, jiras), githubs)
        g2 == _create_cross_references(g1).g
        g3 == _extract_technologies(g2, jiras, githubs)
    IN  _create_component_relationships(g3)

\* the records of a pass, each with its kind, in the order of their upserts
Tagged(jiras, githubs) ==
    [i \in 1..Len(jiras) |-> [kind |-> "jira", issue |-> jiras[i]]]
    \o [i \in 1..Len(githubs) |-> [kind |-> "github", issue |-> githubs[i]]]

OfKind(records, kind) ==
    Map(SelectSeq(records, LAMBDA r : r.kind = kind), LAMBDA r : r.issue)

Upsert(g, rec) ==
    IF rec.kind = "jira"
    THEN _create_jira_issue(g, rec.issue, "this_pass")
    ELSE _create_github_issue(g, rec.issue, "this_pass")

RECURSIVE UpsertAll(_, _)
UpsertAll(g, records) ==
    IF records = << >> THEN g
    ELSE UpsertAll(Upsert(g, Head(records)), Tail(records))

\* the cross-reference query restricted to the activity gi
RECURSIVE XrefOf(_, _, _)
XrefOf(g, gi, patterns) ==
    IF patterns = << >> THEN g
    ELSE XrefOf([nodes |-> g.nodes,
                 edges |-> XrefMerge(g.edges, XrefRows(g.nodes, Head(patterns), <<gi>>))],
                gi, Tail(patterns))

RECURSIVE UpsertResolving(_, _)
UpsertResolving(g, records) ==
    IF records = << >> THEN g
    ELSE UpsertResolving(
            IF Head(records).kind = "jira" THEN Upsert(g, Head(records))
            ELSE XrefOf(Upsert(g, Head(records)),
                        GitHubId(Head(records).issue.repository,
                                 Head(records).issue.number),
                        jira_reference_patterns),
            Tail(records))

\* a load stage that resolves the references of each activity when it upserts
\* it and runs no cross-reference transaction afterwards
ResolveOnUpsert(g, records) ==
    _create_component_relationships(
        _extract_technologies(UpsertResolving(g, records),
                              OfKind(records, "jira"), OfKind(records, "github")))

\* _load_to_neo4j when no transaction fails and the records are upserted in
\* the order of `records`: every upsert, then the three resolution transactions
LoadInOrder(g, records) ==
    _create_component_relationships(
        _extract_technologies(_create_cross_references(UpsertAll(g, records)).g,
                              OfKind(records, "jira"), OfKind(records, "github")))

-----------------------------------------------------------------------------
(* Properties of the full sync *)

Without(props, f) == [x \in (DOMAIN props) \ {f} |-> props[x]]

\* a graph with the lastSynced timestamps left out
IgnoreLastSynced(g) ==
    [nodes |-> [id \in DOMAIN g.nodes |->
                    [cnt |-> g.nodes[id].cnt, p |-> Without(g.nodes[id].p, "lastSynced")]],
     edges |-> g.edges]

\* _load_to_neo4j has returned
LoadStageDone == pc \in {"cleanup", "done"}

SameDataAsPreviousPass ==
    /\ hist.prevJira = jira_issues
    /\ hist.prevGithub = github_issues

EdgesOf(es, type) == {e \in DOMAIN es : e[1] = type}

\* C1: a load stage run on the data of the previous, successful pass leaves the
\* graph, lastSynced aside, exactly as that pass left it (same nodes, same edges)
C1_Idempotent ==
    (LoadStageDone /\ hist.prevOutcome = "done" /\ SameDataAsPreviousPass)
        => IgnoreLastSynced(Graph) = IgnoreLastSynced(hist.curStart)

C1_Witness ==
    /\ LoadStageDone /\ hist.prevOutcome = "done" /\ SameDataAsPreviousPass
    /\ Len(jira_issues) >= 2 /\ Len(github_issues) >= 1
    /\ EdgesOf(edges, "ADDRESSES") # {}
    /\ EdgesOf(edges, "INVOLVES") # {}
    /\ EdgesOf(edges, "AFFECTS") # {}

\* C2: a pass re-run on the same data after a failed pass ends with the graph,
\* lastSynced aside, that one uninterrupted load stage would have produced from
\* the graph the failed pass started on
C2_Reconverges ==
    (LoadStageDone /\ hist.prevOutcome = "failed" /\ SameDataAsPreviousPass)
        => IgnoreLastSynced(Graph) =
           IgnoreLastSynced(_load_to_neo4j(hist.prevStart, jira_issues, github_issues))

\* the failed pass had committed a part, and only a part, of its writes
C2_Witness ==
    /\ LoadStageDone /\ hist.prevOutcome = "failed" /\ SameDataAsPreviousPass
    /\ Len(jira_issues) >= 1 /\ Len(github_issues) >= 1
    /\ IgnoreLastSynced(hist.curStart) # IgnoreLastSynced(hist.prevStart)
    /\ IgnoreLastSynced(hist.curStart) # IgnoreLastSynced(Graph)
    /\ EdgesOf(edges, "ADDRESSES") # {}

\* C4: the graph never holds two nodes of one kind with one natural key
C4_NodeUnique == \A id \in DOMAIN nodes : nodes[id].cnt = 1

\* a tracked item and an activity upserted again with edited non-key fields
C4_Witness ==
    /\ JiraId(K2) \in DOMAIN nodes /\ JiraId(K2) \in DOMAIN hist.curStart.nodes
    /\ nodes[JiraId(K2)].p.summary # hist.curStart.nodes[JiraId(K2)].p.summary
    /\ GitHubId(R1, 1) \in DOMAIN nodes /\ GitHubId(R1, 1) \in DOMAIN hist.curStart.nodes
    /\ nodes[GitHubId(R1, 1)].p.body # hist.curStart.nodes[GitHubId(R1, 1)].p.body
    /\ ProjectId(<<"P">>) \in DOMAIN nodes /\ RepoId(R1) \in DOMAIN nodes
    /\ OrgId(<<"o">>) \in DOMAIN nodes

\* the upstream's closed and open items, once _fetch_jira_issues has returned
ClosedUp == {upJira[i] : i \in {k \in 1..Len(upJira) : IsClosed(upJira[k])}}
OpenUp == {upJira[i] : i \in {k \in 1..Len(upJira) : ~IsClosed(upJira[k])}}
Retained(c) == \E i \in 1..Len(jira_issues) : jira_issues[i].key = c.key
Fetched == pc = "fetch_github"

\* C5 as claimed: with include_closed_with_open_deps enabled, a closed item
\* is retained iff its key occurs in the summary or the description of an
\* open item
C5_AsClaimed ==
    (Fetched /\ includeClosed) =>
        \A c \in ClosedUp :
            Retained(c) <=> \E o \in OpenUp : \/ Contains(o.summary, c.key)
                                              \/ Contains(o.description, c.key)

\* what _filter_closed_with_open_deps retains: with the option enabled, the
\* closed items whose key occurs in the description of an open item (the
\* summary is not consulted); with the option disabled, none
DescriptionOnlyRetention ==
    Fetched =>
        \A c \in ClosedUp :
            Retained(c) <=> /\ includeClosed
                            /\ \E o \in OpenUp : Contains(o.description, c.key)

\* the closed items the retention filter rejects in this pass
Rejected ==
    LET open_issues == _fetch_jira_batch(OpenMatches(upJira)).issues
        recent_closed == _fetch_jira_batch(ClosedMatches(upJira)).issues
        kept == _filter_closed_with_open_deps(recent_closed, open_issues, includeClosed)
    IN  {c \in ClosedUp : \A i \in 1..Len(kept) : kept[i].key # c.key}

UpsertedThisPass(key) ==
    /\ JiraId(key) \in DOMAIN nodes
    /\ nodes[JiraId(key)].p.lastSynced = "this_pass"

\* C6: when the load stage has run, a closed item the filter rejected has no
\* node unless it had one before the pass, and every open item and every
\* retained closed item has been upserted in this pass
C6_RejectedStayOut ==
    LoadStageDone =>
        /\ \A c \in Rejected :
              JiraId(c.key) \notin DOMAIN hist.curStart.nodes
                  => JiraId(c.key) \notin DOMAIN nodes
        /\ \A o \in OpenUp : UpsertedThisPass(o.key)
        /\ \A c \in ClosedUp \ Rejected : UpsertedThisPass(c.key)

C6_Witness ==
    /\ LoadStageDone
    /\ \E c \in Rejected : JiraId(c.key) \notin DOMAIN nodes
    /\ \E c \in ClosedUp \ Rejected : UpsertedThisPass(c.key)
    /\ \E o \in OpenUp : UpsertedThisPass(o.key)

\* C7 as claimed: the failure of one record's upsert does not end the load
\* stage (the record is skipped and the pass goes on)
C7_UpsertFailureContained ==
    pc = "failed" => hist.failedAt \notin {"load_jira", "load_github"}

\* C9 as claimed: _fetch_jira_issues is attempted again only after a transient
\* fetch failure, never because a record did not convert
C9_MalformedNotRetried ==
    hist.jiraAttempts <= 1 + hist.jiraTransient

-----------------------------------------------------------------------------
(* The retry wrapper of tenacity (jira_etl.py, cross_ref_etl.py) *)

\* what follows an attempt that never stops retrying
RetryForever(attempt_number, failed) ==
    IF failed THEN "retry" ELSE "return"

\* @retry(stop=stop_after_attempt(3), ...): what follows attempt attempt_number
\* of the wrapped call: its result is returned, the call is executed again, or
\* the failure is raised to the caller
stop_after_attempt(attempt_number, failed) ==
    IF ~failed THEN "return"
    ELSE IF attempt_number >= 3 THEN "raise"
    ELSE "retry"

\* wait=wait_exponential(multiplier, min, max): the seconds tenacity sleeps
\* after attempt attempt_number has failed, multiplier * 2^(attempt_number - 1)
\* kept within [min, max]
wait_exponential(multiplier, min, max, attempt_number) ==
    LET result == multiplier * 2^(attempt_number - 1)
        capped == IF result < max THEN result ELSE max
    IN  IF capped > min THEN capped ELSE min

\* history of the running retry-wrapped call: the outcomes of its executions,
\* the waits between them and how the call ended
NoCall == [execs |-> << >>, waits |-> << >>, result |-> "none"]
Executed(call, failed) ==
    [execs |-> Append(call.execs, IF failed THEN "fail" ELSE "ok"),
     waits |-> IF stop_after_attempt(Len(call.execs) + 1, failed) = "retry"
               THEN Append(call.waits, wait_exponential(1, 4, 10, Len(call.execs) + 1))
               ELSE call.waits,
     result |-> CASE stop_after_attempt(Len(call.execs) + 1, failed) = "return" -> "returned"
                  [] stop_after_attempt(Len(call.execs) + 1, failed) = "raise" -> "raised"
                  [] OTHER -> "running"]

-----------------------------------------------------------------------------
(* JiraETL (etl/jira/jira_etl.py) *)

\* JIRA_PROJECTS of the modelled deployment, split at the commas
jira_projects == << <<"P">>, <<" ">>, <<"A", "B">> >>

\* project_key.strip() is empty
Blank(t) == \A i \in 1..Len(t) : t[i] = " "

\* max_results of run_etl, scaled down from 100
PageSize == 2

IssueId(key)   == <<"Issue", key, 0>>
ProjId(key)    == <<"Project", key, 0>>
UserId(name)   == <<"User", name, 0>>

KA == <<"A", "B", "-", "1">>

\* an issue of the REST answer
JDoc(key, proj) ==
    [key |-> key,
     fields |-> [summary |-> <<"a", "b">>, status |-> "Open", priority |-> "Major",
                 reporter |-> <<"b">>, created |-> 1, updated |-> 1,
                 project |-> [key |-> proj, name |-> proj]]]

\* the issues the tracker may hold (each with the project the tracker files it
\* under), in the order in which it answers: one has no key, one no fields
JiraApiPool ==
    << [project |-> <<"P">>, doc |-> JDoc(K1, <<"P">>)],
       [project |-> <<"P">>, doc |-> [fields |-> JDoc(K1, <<"P">>).fields]],
       [project |-> <<"P">>,
        doc |-> [JDoc(K2, <<"P">>) EXCEPT
                    !.fields = [f \in DOMAIN @ \cup {"assignee", "description"} |->
                                    IF f = "assignee" THEN <<"a">>
                                    ELSE IF f = "description" THEN K1
                                    ELSE @[f]]]],
       [project |-> <<"P">>, doc |-> [key |-> K3]],
       [project |-> <<"P">>, doc |-> JDoc(K3, <<"P">>)],
       [project |-> <<"A", "B">>, doc |-> JDoc(KA, <<"A", "B">>)] >>

JiraApiStates == {s \in SubSeqs(JiraApiPool) : Len(s) <= MaxJira}

WellFormed(doc) == {"key", "fields"} \subseteq DOMAIN doc

\* a fetch that reads startAt as the number of the first record wanted
FetchOneBased(up, project_key, startAt, max_results) ==
    LET matching == SelectSeq(up, LAMBDA r : r.project = project_key)
        page == search_issues(matching, startAt + 1, max_results)
    IN  [issues |-> [i \in 1..Len(page) |-> page[i].doc]]

\* one execution of fetch_jira_issues that the tracker answers: response.json()
fetch_jira_issues(up, project_key, startAt, max_results) ==
    LET matching == SelectSeq(up, LAMBDA r : r.project = project_key)
        page == search_issues(matching, startAt, max_results)
    IN  [issues |-> [i \in 1..Len(page) |-> page[i].doc]]

transform_issue(issue) ==
    IF "fields" \notin DOMAIN issue \/ "key" \notin DOMAIN issue THEN Raise
    ELSE LET fields == issue.fields
         IN  [key |-> issue.key,
              summary |-> Opt(fields, "summary", << >>),
              description |-> Opt(fields, "description", << >>),
              status |-> Opt(fields, "status", ""),
              priority |-> Opt(fields, "priority", ""),
              assignee |-> IF "assignee" \in DOMAIN fields
                           THEN <<fields.assignee>> ELSE << >>,
              reporter |-> Opt(fields, "reporter", << >>),
              created |-> Opt(fields, "created", 0),
              updated |-> Opt(fields, "updated", 0),
              project_key |-> IF "project" \in DOMAIN fields
                              THEN fields.project.key ELSE << >>,
              project_name |-> IF "project" \in DOMAIN fields
                               THEN fields.project.name ELSE << >>]

\* the default query of load_cypher_queries run with the parameters `issue`
jira_cypher(g, issue) ==
    LET i  == IssueId(issue.key)
        pr == ProjId(issue.project_key)
        r  == UserId(issue.reporter)
        n1 == MergeNode(g.nodes, i)
        n2 == SetNode(n1, i,
                [summary |-> issue.summary,
                 description |-> issue.description,
                 status |-> issue.status,
                 priority |-> issue.priority,
                 created |-> issue.created,
                 updated |-> issue.updated])
        n3 == MergeNode(n2, pr)
        n4 == SetNode(n3, pr, [name |-> issue.project_name])
        e1 == MergeEdge(g.edges, <<"BELONGS_TO", i, pr>>)
        n5 == IF issue.assignee = << >> THEN n4
              ELSE MergeNode(n4, UserId(issue.assignee[1]))
        e2 == IF issue.assignee = << >> THEN e1
              ELSE MergeEdge(e1, <<"ASSIGNED_TO", i, UserId(issue.assignee[1])>>)
        n6 == MergeNode(n5, r)
    IN  [nodes |-> n6, edges |-> MergeEdge(e2, <<"REPORTED_BY", i, r>>)]


\* the history of the retry-wrapped call that is executing
Running(call) == IF call.result = "running" THEN call ELSE NoCall

\* an execution of fetch_jira_issues and a sleep of the process (the wait of
\* the retry wrapper; run_etl itself never sleeps)
Request(p, startAt, answered) ==
    [kind |-> "request", project |-> p, startAt |-> startAt, answered |-> answered]
Wait(p) == [kind |-> "wait", project |-> p, startAt |-> 0, answered |-> TRUE]

\* writes: the records of the page being loaded on which session.run has been
\* executed, in order; givenUp: those the loop has left without a commit;
\* requests: the executions of fetch_jira_issues (project, startAt, answered)
\* and, as entries of kind "wait", the sleeps of the process between them;
\* start: the graph CrossReferenceETL found when it started;
\* fetched: the issues of the answers, in order; broke: the handler of
\* run_etl has ended a page loop
EtlHist ==
    [call |-> NoCall, fetchRaised |-> FALSE, storeRejected |-> FALSE, faults |-> 0,
     writes |-> << >>, givenUp |-> {},
     requests |-> << >>, fetched |-> << >>, broke |-> FALSE,
     env |-> << >>, start |-> EmptyGraph]

\* os.getenv: None for a variable that is not set, else its string
None == [set |-> FALSE, value |-> << >>]
Str(t) == [set |-> TRUE, value |-> t]

\* the variables __init__ reads with os.getenv and then requires
JiraRequired ==
    {"JIRA_URL", "JIRA_USERNAME", "JIRA_API_TOKEN",
     "NEO4J_URI", "NEO4J_USER", "NEO4J_PASSWORD"}
CrossRefRequired == {"NEO4J_URI", "NEO4J_USER", "NEO4J_PASSWORD"}

\* the values a run may find for the variables it reads: every variable set,
\* one variable not set or set to the empty string, or none set
Environments(names) ==
    LET all_set == [v \in names |-> Str(<<"v">>)]
    IN  {all_set, [v \in names |-> None]}
        \cup {[all_set EXCEPT ![v] = x] : v \in names, x \in {None, Str(<< >>)}}

\* a validation that finds nothing missing
NothingMissing(env, required_vars) == {}

\* [var for var in required_vars if not os.getenv(var)]
missing_vars(env, required_vars) ==
    {v \in required_vars : env[v] = None \/ env[v].value = << >>}

\* main(): the handler of an exception logs it and calls sys.exit(1); a run
\* that returns from main ends with status 0
ExitStatus ==
    CASE pc \in {"startup_failed", "xref_failed"} -> 1
      [] pc \in {"etl_done", "xref_done"} -> 0
      [] OTHER -> -1

\* main(): JiraETL() reads the environment and raises ValueError when a
\* required variable is missing; otherwise run_etl starts on the first project
JiraETLInit ==
    /\ pc = "JiraETL"
    /\ \E env \in Environments(JiraRequired) :
          /\ hist' = [hist EXCEPT !.env = env]
          /\ pc' = IF missing_vars(env, JiraRequired) # {}
                   THEN "startup_failed" ELSE "run_etl"
    /\ UNCHANGED <<sync, upJira, attempt, jira_issues, idx, nodes, edges, etl>>

\* main() of jira_etl.py is about to construct JiraETL
InitJiraETL ==
    /\ upJira \in JiraApiStates
    /\ upGithub = << >>
    /\ includeClosed = FALSE
    /\ pc = "JiraETL"
    /\ attempt = 0
    /\ jira_issues = << >>
    /\ github_issues = << >>
    /\ idx = 0
    /\ nodes = << >>
    /\ edges = << >>
    /\ processed_items = [jira |-> 0, github |-> 0, links |-> 0]
    /\ pass = 0
    /\ project_no = 1 /\ page_start = 0 /\ total_issues = 0 /\ stats = << >>
    /\ hist = EtlHist

\* `break` out of the page loop: on to the next project of jira_projects
Break ==
    /\ pc' = "run_etl"
    /\ project_no' = project_no + 1

\* for project_key in self.jira_projects: the loop is exhausted
EtlCompleted ==
    /\ pc = "run_etl"
    /\ project_no > Len(jira_projects)
    /\ pc' = "etl_done"
    /\ UNCHANGED <<sync, upJira, attempt, jira_issues, idx, nodes, edges, etl, hist>>

\* if not project_key.strip(): continue
SkipBlankProject ==
    /\ pc = "run_etl"
    /\ project_no <= Len(jira_projects)
    /\ Blank(jira_projects[project_no])
    /\ project_no' = project_no + 1
    /\ UNCHANGED <<sync, upJira, pc, attempt, jira_issues, idx, nodes, edges,
                   page_start, total_issues, stats, hist>>

StartProject ==
    /\ pc = "run_etl"
    /\ project_no <= Len(jira_projects)
    /\ ~Blank(jira_projects[project_no])
    /\ page_start' = 0
    /\ pc' = "fetch"
    /\ attempt' = 1
    /\ UNCHANGED <<sync, upJira, jira_issues, idx, nodes, edges, project_no,
                   total_issues, stats, hist>>

\* an execution of fetch_jira_issues raises (requests.get or raise_for_status):
\* the wrapper executes it again or raises, and run_etl's handler breaks
FetchRaises ==
    /\ pc = "fetch"
    /\ LET after == stop_after_attempt(attempt, TRUE)
       IN  /\ hist' = [hist EXCEPT !.call = Executed(Running(@), TRUE),
                                   !.fetchRaised = @ \/ after = "raise",
                                   !.broke = @ \/ after = "raise",
                                   !.requests =
                                       @ \o <<Request(project_no, page_start, FALSE)>>
                                         \o IF after = "retry" THEN <<Wait(project_no)>>
                                            ELSE << >>]
           /\ IF after = "retry"
              THEN attempt' = attempt + 1 /\ UNCHANGED <<pc, project_no>>
              ELSE attempt' = attempt /\ Break
    /\ UNCHANGED <<sync, upJira, jira_issues, idx, nodes, edges, page_start,
                   total_issues, stats>>

\* an execution of fetch_jira_issues returns the page at start_at
FetchReturns ==
    /\ pc = "fetch"
    /\ LET response == fetch_jira_issues(upJira, jira_projects[project_no],
                                         page_start, PageSize)
       IN  /\ jira_issues' = response.issues
           /\ IF response.issues = << >>
              THEN Break
              ELSE pc' = "transform" /\ UNCHANGED project_no
    /\ hist' = [hist EXCEPT !.call = Executed(Running(@), FALSE),
                             !.requests = Append(@, Request(project_no, page_start,
                                                            TRUE)),
                             !.fetched = @ \o Map(jira_issues',
                                                  LAMBDA d : [project |-> project_no,
                                                              doc |-> d])]
    /\ UNCHANGED <<sync, upJira, attempt, idx, nodes, edges, page_start,
                   total_issues, stats>>

\* transformed_issues = [self.transform_issue(issue) for issue in issues]
Transform ==
    /\ pc = "transform"
    /\ LET transformed == [i \in 1..Len(jira_issues) |-> transform_issue(jira_issues[i])]
       IN  IF \E i \in 1..Len(transformed) : Raised(transformed[i])
           THEN /\ Break /\ UNCHANGED <<jira_issues, idx, attempt>>
                /\ hist' = [hist EXCEPT !.writes = << >>, !.givenUp = {},
                                         !.broke = TRUE]
           ELSE /\ jira_issues' = transformed
                /\ pc' = "load"
                /\ idx' = 1
                /\ attempt' = 1
                /\ UNCHANGED project_no
                /\ hist' = [hist EXCEPT !.writes = << >>, !.givenUp = {}]
    /\ UNCHANGED <<sync, upJira, nodes, edges, page_start, total_issues, stats>>

\* load_to_neo4j: self.driver.session() raises before any record is written
LoadSessionRaises ==
    /\ pc = "load"
    /\ idx = 1
    /\ LET after == stop_after_attempt(attempt, TRUE)
       IN  /\ hist' = [hist EXCEPT !.call = Executed(Running(@), TRUE),
                                   !.storeRejected = @ \/ after = "raise",
                                   !.broke = @ \/ after = "raise",
                                   !.requests = IF after = "retry"
                                                THEN Append(@, Wait(project_no))
                                                ELSE @]
           /\ IF after = "retry"
              THEN attempt' = attempt + 1 /\ UNCHANGED <<pc, project_no>>
              ELSE attempt' = attempt /\ Break
    /\ UNCHANGED <<sync, upJira, jira_issues, idx, nodes, edges, page_start,
                   total_issues, stats>>

\* load_to_neo4j: session.run(self.jira_cypher, issue) commits
LoadRecord ==
    /\ pc = "load"
    /\ idx <= Len(jira_issues)
    /\ Commit(jira_cypher(Graph, jira_issues[idx]))
    /\ idx' = idx + 1
    /\ hist' = [hist EXCEPT !.writes = Append(@, idx)]
    /\ UNCHANGED <<sync, upJira, pc, attempt, jira_issues, etl>>

\* load_to_neo4j: session.run raises; the handler logs it and the loop goes on
LoadRecordRejected ==
    /\ pc = "load"
    /\ idx <= Len(jira_issues)
    /\ idx' = idx + 1
    /\ hist' = [hist EXCEPT !.storeRejected = TRUE,
                             !.writes = Append(@, idx),
                             !.givenUp = @ \cup {idx}]
    /\ UNCHANGED <<sync, upJira, pc, attempt, jira_issues, nodes, edges, etl>>

\* load_to_neo4j returns; run_etl counts the page and goes on or breaks
LoadReturns ==
    /\ pc = "load"
    /\ idx > Len(jira_issues)
    /\ hist' = [hist EXCEPT !.call = Executed(Running(@), FALSE)]
    /\ total_issues' = total_issues + Len(jira_issues)
    /\ IF Len(jira_issues) < PageSize
       THEN Break /\ UNCHANGED <<page_start, attempt>>
       ELSE /\ page_start' = page_start + PageSize
            /\ pc' = "fetch"
            /\ attempt' = 1
            /\ UNCHANGED project_no
    /\ UNCHANGED <<sync, upJira, jira_issues, idx, nodes, edges, stats>>

-----------------------------------------------------------------------------
(* CrossReferenceETL (etl/cross-reference/cross_ref_etl.py): configuration *)

\* the patterns of _set_default_patterns, the technology words scaled down to
\* the alphabet of the model; the component table is the one of the modelled
\* deployment's cross-reference-config (load_configuration), which names two
\* components that differ in letter case only
jira_patterns == << "[A-Z]+-\\d+" >>
github_patterns == << "#(\\d+)" >>
default_technology_patterns == << "\\b(ab|p)\\b" >>
default_component_mapping ==
    << [component |-> <<"C">>, keywords |-> << <<"a", "b">> >>],
       [component |-> <<"c">>, keywords |-> << <<"r">> >>] >>

PullRequestId(repo, n) == <<"PullRequest", repo, n>>
RepositoryId(fullName) == <<"Repository", fullName, 0>>
MetadataId == <<"ProcessingMetadata", <<"x">>, 0>>

NoStats ==
    [jira_github_links |-> 0, github_jira_links |-> 0,
     technology_extractions |-> 0, component_mappings |-> 0,
     hierarchy_relationships |-> 0]

-----------------------------------------------------------------------------
(* CrossReferenceETL: the queries *)

\* MERGE (a)-[:out]->(b) alone for each row <<a, b>>
RECURSIVE OneWayMerge(_, _, _, _)
OneWayMerge(es, rows, out, back) ==
    IF rows = << >> THEN es
    ELSE LET rest(v) == OneWayMerge(v, Tail(rows), out, back)
         IN  Then(MergeEdge(es, <<out, Head(rows)[1], Head(rows)[2]>>), rest)

\* MERGE (a)-[:out]->(b) MERGE (b)-[:back]->(a) for each row <<a, b>>
RECURSIVE PairMerge(_, _, _, _)
PairMerge(es, rows, out, back) ==
    IF rows = << >> THEN es
    ELSE LET rest(v) == PairMerge(v, Tail(rows), out, back)
         IN  Then(MergeEdge(MergeEdge(es, <<out, Head(rows)[1], Head(rows)[2]>>),
                            <<back, Head(rows)[2], Head(rows)[1]>>),
                  rest)

\* the nodes with label q.src that pass WHERE n.f1 IS NOT NULL OR n.f2 IS NOT NULL
Sources(ns, q) ==
    SetToSeq({id \in NodesOf(ns, q.src) :
                 q.f1 \in DOMAIN ns[id].p \/ q.f2 \in DOMAIN ns[id].p})

\* coalesce(n.f1, '') + ' ' + coalesce(n.f2, ''), under toLower when q.lower
QueryText(props, q) ==
    IF q.lower
    THEN ToLower(Coalesce(props, q.f1) \o SP \o Coalesce(props, q.f2))
    ELSE Coalesce(props, q.f1) \o SP \o Coalesce(props, q.f2)

\* UNWIND matches AS match WITH n, match[q.group] AS c WHERE c IS NOT NULL
Candidates(ns, q, id) ==
    FlatMap(regexGroups(QueryText(ns[id].p, q), q.pattern),
            LAMBDA m : IF q.group + 1 <= Len(m) THEN <<m[q.group + 1]>> ELSE << >>)

\* MATCH (j:Issue {key: c}) / MATCH (g:GitHubIssue {number: toInteger(c)})
Targets(ns, q, c) ==
    IF q.target = "Issue"
    THEN IF IssueId(c) \in DOMAIN ns THEN <<IssueId(c)>> ELSE << >>
    ELSE SetToSeq({id \in NodesOf(ns, "GitHubIssue") : id[3] = TextToInt(c)})

\* the rows of one source when the query does not MATCH its target: one row
\* per candidate, bound to the node the candidate names whether or not it exists
SourceRowsUnmatched(ns, q, id) ==
    Map(Candidates(ns, q, id),
        LAMBDA c : <<id, IF q.target = "Issue" THEN IssueId(c)
                         ELSE <<"GitHubIssue", R1, TextToInt(c)>> >>)

\* the rows <<source, target>> a reference query binds for the source id
CandidateRows(ns, q, id, c) ==
    Map(Targets(ns, q, c), LAMBDA t : <<id, t>>)

SourceRows(ns, q, id) ==
    FlatMap(Candidates(ns, q, id), LAMBDA c : CandidateRows(ns, q, id, c))

RefRows(ns, q) ==
    FlatMap(Sources(ns, q), LAMBDA n : SourceRows(ns, q, n))

\* a reference query (kind "refs"): [g, count]
RefQuery(g, q) ==
    Then(RefRows(g.nodes, q),
         LAMBDA rows : [g |-> [nodes |-> g.nodes,
                               edges |-> PairMerge(g.edges, rows, q.out, q.back)],
                        count |-> Len(rows)])

\* MERGE (t:Technology {name: tech}) MERGE (n)-[:INVOLVES]->(t) per row <<n, tech>>
RECURSIVE TechMerge(_, _)
TechMerge(g, rows) ==
    IF rows = << >> THEN g
    ELSE LET rest(v) == TechMerge(v, Tail(rows))
         IN  Then([nodes |-> MergeNode(g.nodes, TechId(Head(rows)[2])),
                   edges |-> MergeEdge(g.edges,
                                <<"INVOLVES", Head(rows)[1], TechId(Head(rows)[2])>>)],
                  rest)

TechRows(ns, q, id) ==
    Map(Candidates(ns, q, id), LAMBDA c : <<id, c>>)

\* a query of extract_technologies (kind "tech")
TechQuery(g, q) ==
    Then(FlatMap(Sources(g.nodes, q), LAMBDA n : TechRows(g.nodes, q, n)),
         LAMBDA rows : [g |-> TechMerge(g, rows), count |-> Len(rows)])

\* toLower(n.f) CONTAINS keyword, null when the property is missing
LowerContains(props, f, keyword) ==
    f \in DOMAIN props /\ Contains(ToLower(props[f]), keyword)

IssueMatchesKeyword(props, keyword) ==
    \/ LowerContains(props, "summary", keyword)
    \/ LowerContains(props, "description", keyword)
    \/ /\ "components" \in DOMAIN props
       /\ \E i \in 1..Len(props.components) :
             Contains(ToLower(props.components[i]), keyword)

\* the first query of create_component_mappings (kind "comp_issue")
ComponentIssues(g, q) ==
    LET rows == SetToSeq({id \in NodesOf(g.nodes, "Issue") :
                            IssueMatchesKeyword(g.nodes[id].p, ToLower(q.keyword))})
    IN  [g |-> ComponentMerge(g, "AFFECTS", rows, q.component), count |-> Len(rows)]

\* the second query of create_component_mappings (kind "comp_repo")
ComponentRepos(g, q) ==
    LET rows == SetToSeq({id \in NodesOf(g.nodes, "Repository") :
                            \/ LowerContains(g.nodes[id].p, "name", ToLower(q.keyword))
                            \/ LowerContains(g.nodes[id].p, "full_name", ToLower(q.keyword))})
    IN  [g |-> ComponentMerge(g, "IMPLEMENTS", rows, q.component), count |-> Len(rows)]

\* the third query of create_component_mappings (kind "comp_via_repo")
ComponentViaRepo(g, q) ==
    LET c == ComponentId(q.component)
        rows == SetToSeq({e \in DOMAIN g.edges :
                            /\ e[1] = "BELONGS_TO"
                            /\ e[2][1] = "GitHubIssue"
                            /\ e[3][1] = "Repository"
                            /\ <<"IMPLEMENTS", e[3], c>> \in DOMAIN g.edges})
    IN  [g |-> [nodes |-> g.nodes,
                edges |-> MergeEdges(g.edges,
                            [i \in 1..Len(rows) |-> <<"RELATES_TO", rows[i][2], c>>])],
         count |-> Len(rows)]

\* child.description CONTAINS parent.key OR child.summary CONTAINS parent.key
\* OR parent.key IN child.labels
MentionsKey(props, key) ==
    \/ "description" \in DOMAIN props /\ Contains(props.description, key)
    \/ "summary" \in DOMAIN props /\ Contains(props.summary, key)
    \/ "labels" \in DOMAIN props /\ \E i \in 1..Len(props.labels) : props.labels[i] = key

HasType(ns, id, types) ==
    "issueType" \in DOMAIN ns[id].p /\ ns[id].p.issueType \in types

\* a hierarchy query that links every issue to every issue whose key it
\* mentions, whatever their types
HierarchyAnyLevel(g, q) ==
    LET issues == NodesOf(g.nodes, "Issue")
        rows == SetToSeq({pair \in issues \X issues :
                            /\ pair[1] # pair[2]
                            /\ MentionsKey(g.nodes[pair[1]].p, pair[2][2])})
    IN  [g |-> [nodes |-> g.nodes,
                edges |-> PairMerge(g.edges, rows, "CHILD_OF", "PARENT_OF")],
         count |-> Len(rows)]

\* the first two queries of create_hierarchy_relationships (kind "hier")
HierarchyQuery(g, q) ==
    LET issues == NodesOf(g.nodes, "Issue")
        rows == SetToSeq({pair \in issues \X issues :
                            /\ HasType(g.nodes, pair[2], q.parent)
                            /\ HasType(g.nodes, pair[1], q.child)
                            /\ MentionsKey(g.nodes[pair[1]].p, pair[2][2])})
    IN  [g |-> [nodes |-> g.nodes,
                edges |-> PairMerge(g.edges, rows, "CHILD_OF", "PARENT_OF")],
         count |-> Len(rows)]

RECURSIVE ProjectMerge(_, _)
ProjectMerge(g, rows) ==
    IF rows = << >> THEN g
    ELSE LET pr == ProjId(g.nodes[Head(rows)].p.project)
             rest(v) == ProjectMerge(v, Tail(rows))
         IN  Then([nodes |-> MergeNode(g.nodes, pr),
                   edges |-> MergeEdge(g.edges, <<"BELONGS_TO", Head(rows), pr>>)],
                  rest)

\* the third query of create_hierarchy_relationships (kind "project"): MERGE
\* on a null issue.project is an error of the store
ProjectQuery(g, q) ==
    LET rows == SetToSeq(NodesOf(g.nodes, "Issue"))
    IN  IF \E i \in 1..Len(rows) : "project" \notin DOMAIN g.nodes[rows[i]].p
        THEN Raise
        ELSE [g |-> ProjectMerge(g, rows), count |-> Len(rows)]

RECURSIVE UserMerge(_, _, _, _)
UserMerge(g, rows, f, type) ==
    IF rows = << >> THEN g
    ELSE LET u == UserId(g.nodes[Head(rows)].p[f])
             rest(v) == UserMerge(v, Tail(rows), f, type)
         IN  Then([nodes |-> MergeNode(g.nodes, u),
                   edges |-> MergeEdge(g.edges, <<type, Head(rows), u>>)],
                  rest)

\* a query of create_user_relationships (kind "user")
UserQuery(g, q) ==
    LET rows == SetToSeq({id \in NodesOf(g.nodes, q.src) : q.f \in DOMAIN g.nodes[id].p})
    IN  [g |-> UserMerge(g, rows, q.f, q.type), count |-> Len(rows)]

-----------------------------------------------------------------------------
(* CrossReferenceETL: the steps of run_cross_reference_processing *)

create_jira_github_references ==
    Flatten([i \in 1..Len(jira_patterns) |->
        << [kind |-> "refs", src |-> "GitHubIssue", f1 |-> "title", f2 |-> "body",
            lower |-> FALSE, pattern |-> jira_patterns[i], group |-> 0,
            target |-> "Issue", out |-> "ADDRESSES", back |-> "TRACKED_IN",
            stat |-> "jira_github_links"],
           [kind |-> "refs", src |-> "PullRequest", f1 |-> "title", f2 |-> "body",
            lower |-> FALSE, pattern |-> jira_patterns[i], group |-> 0,
            target |-> "Issue", out |-> "IMPLEMENTS", back |-> "IMPLEMENTED_IN",
            stat |-> "jira_github_links"] >>])

create_github_jira_references ==
    [i \in 1..Len(github_patterns) |->
        [kind |-> "refs", src |-> "Issue", f1 |-> "description", f2 |-> "summary",
         lower |-> FALSE, pattern |-> github_patterns[i], group |-> 1,
         target |-> "GitHubIssue", out |-> "REFERENCES", back |-> "REFERENCED_BY",
         stat |-> "github_jira_links"]]

extract_technologies ==
    Flatten([i \in 1..Len(default_technology_patterns) |->
        << [kind |-> "tech", src |-> "Issue", f1 |-> "description", f2 |-> "summary",
            lower |-> TRUE, pattern |-> default_technology_patterns[i], group |-> 0,
            stat |-> "technology_extractions"],
           [kind |-> "tech", src |-> "GitHubIssue", f1 |-> "body", f2 |-> "title",
            lower |-> TRUE, pattern |-> default_technology_patterns[i], group |-> 0,
            stat |-> "none"],
           [kind |-> "tech", src |-> "PullRequest", f1 |-> "body", f2 |-> "title",
            lower |-> TRUE, pattern |-> default_technology_patterns[i], group |-> 0,
            stat |-> "none"] >>])

create_component_mappings ==
    Flatten([i \in 1..Len(default_component_mapping) |->
        LET m == default_component_mapping[i]
        IN  Flatten([k \in 1..Len(m.keywords) |->
                << [kind |-> "comp_issue", component |-> m.component,
                    keyword |-> m.keywords[k], stat |-> "component_mappings"],
                   [kind |-> "comp_repo", component |-> m.component,
                    keyword |-> m.keywords[k], stat |-> "none"],
                   [kind |-> "comp_via_repo", component |-> m.component,
                    stat |-> "none"] >>])])

create_hierarchy_relationships ==
    << [kind |-> "hier", parent |-> {"Epic"}, child |-> {"Story"},
        stat |-> "hierarchy_relationships"],
       [kind |-> "hier", parent |-> {"Story"}, child |-> {"Task", "Sub-task", "Bug"},
        stat |-> "hierarchy_relationships"],
       [kind |-> "project", stat |-> "none"] >>

create_user_relationships ==
    << [kind |-> "user", src |-> "Issue", f |-> "assignee", type |-> "ASSIGNED_TO",
        stat |-> "none"],
       [kind |-> "user", src |-> "GitHubIssue", f |-> "author", type |-> "CREATED_BY",
        stat |-> "none"] >>

\* the steps with the user step ahead of the reference steps
StepsUsersFirst ==
    << "create_user_relationships", "create_jira_github_references",
       "create_github_jira_references", "extract_technologies",
       "create_component_mappings", "create_hierarchy_relationships" >>

\* the retry-wrapped steps in the order of run_cross_reference_processing
Steps ==
    << "create_jira_github_references", "create_github_jira_references",
       "extract_technologies", "create_component_mappings",
       "create_hierarchy_relationships", "create_user_relationships" >>

Queries(step) ==
    CASE step = "create_jira_github_references" -> create_jira_github_references
      [] step = "create_github_jira_references" -> create_github_jira_references
      [] step = "extract_technologies" -> extract_technologies
      [] step = "create_component_mappings" -> create_component_mappings
      [] step = "create_hierarchy_relationships" -> create_hierarchy_relationships
      [] step = "create_user_relationships" -> create_user_relationships

StepNo(step) == CHOOSE i \in 1..Len(Steps) : Steps[i] = step

\* session.run(query, ...) when the store answers: [g, count], or Raise
RunQuery(g, q) ==
    CASE q.kind = "refs" -> RefQuery(g, q)
      [] q.kind = "tech" -> TechQuery(g, q)
      [] q.kind = "comp_issue" -> ComponentIssues(g, q)
      [] q.kind = "comp_repo" -> ComponentRepos(g, q)
      [] q.kind = "comp_via_repo" -> ComponentViaRepo(g, q)
      [] q.kind = "hier" -> HierarchyQuery(g, q)
      [] q.kind = "project" -> ProjectQuery(g, q)
      [] q.kind = "user" -> UserQuery(g, q)

\* update_processing_metadata
update_processing_metadata(g, st) ==
    [nodes |-> SetNode(MergeNode(g.nodes, MetadataId), MetadataId,
                       [last_run |-> "now",
                        jira_github_links |-> st.jira_github_links,
                        github_jira_links |-> st.github_jira_links,
                        technology_extractions |-> st.technology_extractions,
                        component_mappings |-> st.component_mappings,
                        hierarchy_relationships |-> st.hierarchy_relationships]),
     edges |-> g.edges]

-----------------------------------------------------------------------------
(* CrossReferenceETL: the store it finds, as the loaders left it *)

\* Issue nodes written by a mounted jira-cypher query that sets issueType,
\* project, assignee and labels
XIssuePool ==
    << [id |-> IssueId(K1),
        p |-> [summary |-> <<"a", "b">>, description |-> <<"#", "1">>,
               issueType |-> "Epic", project |-> <<"P">>, assignee |-> <<"a">>]],
       [id |-> IssueId(K2),
        p |-> [summary |-> K1, description |-> <<"A", "B">>,
               issueType |-> "Story", project |-> <<"P">>, labels |-> << >>]],
       [id |-> IssueId(K3),
        p |-> [summary |-> << >>, description |-> K2 \o SP \o K1 \o <<" ", "#", "9">>,
               issueType |-> "Task", project |-> <<"P">>, labels |-> <<K2>>]] >>

\* GitHubIssue and PullRequest nodes, each with the repository it belongs to
XGithubPool ==
    << [id |-> GitHubId(R1, 1), repo |-> R1,
        p |-> [title |-> K1, body |-> K1 \o SP \o <<"P", "-", "9">>,
               author |-> <<"a">>]],
       [id |-> GitHubId(R2, 1), repo |-> R2,
        p |-> [title |-> <<"a", "b">>, body |-> << >>]],
       [id |-> PullRequestId(R1, 2), repo |-> R1,
        p |-> [title |-> K2, body |-> <<"p">>]] >>

RECURSIVE WithIssues(_, _)
WithIssues(g, items) ==
    IF items = << >> THEN g
    ELSE LET rest(v) == WithIssues(v, Tail(items))
         IN  Then([nodes |-> SetNode(MergeNode(g.nodes, Head(items).id),
                                     Head(items).id, Head(items).p),
                   edges |-> g.edges],
                  rest)

RECURSIVE WithGithub(_, _)
WithGithub(g, items) ==
    IF items = << >> THEN g
    ELSE LET it == Head(items)
             r == RepositoryId(it.repo)
             n1 == SetNode(MergeNode(g.nodes, it.id), it.id, it.p)
             n2 == SetNode(MergeNode(n1, r), r,
                           [name |-> Split(it.repo, "/")[2], full_name |-> it.repo])
             rest(v) == WithGithub(v, Tail(items))
         IN  Then([nodes |-> n2,
                   edges |-> MergeEdge(g.edges, <<"BELONGS_TO", it.id, r>>)],
                  rest)

\* the issue AB-1 as JiraETL's default query loads it
DefaultLoaded(g, present) ==
    IF present
    THEN jira_cypher(g, transform_issue(JDoc(KA, <<"A", "B">>)))
    ELSE g

StoreStates ==
    { DefaultLoaded(WithGithub(WithIssues(EmptyGraph, is), gs), d) :
        is \in {x \in SubSeqs(XIssuePool) : Len(x) <= MaxJira},
        gs \in {x \in SubSeqs(XGithubPool) : Len(x) <= MaxGithub},
        d \in BOOLEAN }

-----------------------------------------------------------------------------
(* CrossReferenceETL.run_cross_reference_processing *)

\* main() of cross_ref_etl.py is about to construct CrossReferenceETL
InitCrossRef ==
    /\ \E g \in StoreStates : nodes = g.nodes /\ edges = g.edges
    /\ upJira = << >>
    /\ upGithub = << >>
    /\ includeClosed = FALSE
    /\ pc = "CrossReferenceETL"
    /\ attempt = 1
    /\ jira_issues = << >>
    /\ github_issues = << >>
    /\ idx = 1
    /\ processed_items = [jira |-> 0, github |-> 0, links |-> 0]
    /\ pass = 0
    /\ project_no = 0 /\ page_start = 0 /\ total_issues = 0
    /\ stats = NoStats
    /\ hist = EtlHist

\* main(): CrossReferenceETL() reads the environment and raises ValueError
\* when a required variable is missing; otherwise it connects, loads its
\* configuration and run_cross_reference_processing starts on its first step
CrossReferenceETLInit ==
    /\ pc = "CrossReferenceETL"
    /\ \E env \in Environments(CrossRefRequired) :
          /\ hist' = [hist EXCEPT !.env = env, !.start = Graph]
          /\ pc' = IF missing_vars(env, CrossRefRequired) # {}
                   THEN "startup_failed" ELSE Steps[1]
    /\ UNCHANGED <<sync, upJira, attempt, jira_issues, idx, nodes, edges, etl>>

\* an execution of the running step raises: the wrapper starts the step again
\* from its first query, or raises to run_cross_reference_processing, which
\* logs and re-raises
StepRaises(fault) ==
    /\ hist' = [hist EXCEPT !.call = Executed(Running(@), TRUE),
                            !.faults = @ + fault]
    /\ IF stop_after_attempt(attempt, TRUE) = "retry"
       THEN attempt' = attempt + 1 /\ idx' = 1 /\ pc' = pc
       ELSE attempt' = attempt /\ idx' = idx /\ pc' = "xref_failed"
    /\ UNCHANGED <<sync, upJira, jira_issues, nodes, edges, project_no,
                   page_start, total_issues, stats>>

InStep == pc \in {Steps[i] : i \in 1..Len(Steps)}

\* session.run of the step's next query commits; its count goes to the stats
QueryCommits ==
    /\ InStep
    /\ idx <= Len(Queries(pc))
    /\ \E r \in {RunQuery(Graph, Queries(pc)[idx])} :
           /\ ~Raised(r)
           /\ Commit(r.g)
           /\ stats' = IF Queries(pc)[idx].stat = "none" THEN stats
                       ELSE [stats EXCEPT ![Queries(pc)[idx].stat] = @ + r.count]
    /\ idx' = idx + 1
    /\ UNCHANGED <<sync, upJira, pc, attempt, jira_issues, project_no,
                   page_start, total_issues, hist>>

\* the store rejects the step's next query (MERGE on a null property)
QueryRejected ==
    /\ InStep
    /\ idx <= Len(Queries(pc))
    /\ Raised(RunQuery(Graph, Queries(pc)[idx]))
    /\ StepRaises(0)

\* the store does not answer the step's next query
QueryRaises ==
    /\ InStep
    /\ idx <= Len(Queries(pc))
    /\ hist.faults < MaxFaults
    /\ StepRaises(1)

\* the step returns; run_cross_reference_processing calls the next one
StepReturns ==
    /\ InStep
    /\ idx > Len(Queries(pc))
    /\ hist' = [hist EXCEPT !.call = Executed(Running(@), FALSE)]
    /\ pc' = IF StepNo(pc) < Len(Steps) THEN Steps[StepNo(pc) + 1]
             ELSE "update_processing_metadata"
    /\ idx' = 1
    /\ attempt' = 1
    /\ UNCHANGED <<sync, upJira, jira_issues, nodes, edges, etl>>

UpdateMetadata ==
    /\ pc = "update_processing_metadata"
    /\ Commit(update_processing_metadata(Graph, stats))
    /\ pc' = "xref_done"
    /\ UNCHANGED <<sync, upJira, attempt, jira_issues, idx, etl, hist>>

\* update_processing_metadata is not retry-wrapped
UpdateMetadataRaises ==
    /\ pc = "update_processing_metadata"
    /\ hist.faults < MaxFaults
    /\ pc' = "xref_failed"
    /\ hist' = [hist EXCEPT !.faults = @ + 1]
    /\ UNCHANGED <<sync, upJira, attempt, jira_issues, idx, nodes, edges, etl>>

-----------------------------------------------------------------------------
(* The standalone programs: one run of JiraETL or of CrossReferenceETL *)

InitEtl == InitJiraETL \/ InitCrossRef

NextEtl ==
    \/ JiraETLInit
    \/ CrossReferenceETLInit
    \/ EtlCompleted
    \/ SkipBlankProject
    \/ StartProject
    \/ FetchRaises
    \/ FetchReturns
    \/ Transform
    \/ LoadSessionRaises
    \/ LoadRecord
    \/ LoadRecordRejected
    \/ LoadReturns
    \/ QueryCommits
    \/ QueryRejected
    \/ QueryRaises
    \/ StepReturns
    \/ UpdateMetadata
    \/ UpdateMetadataRaises

SpecEtl == InitEtl /\ [][NextEtl]_vars

-----------------------------------------------------------------------------
(* GitHubETL (etl/github/github_etl.py) *)

\* GITHUB_REPOS split at the commas
github_repos == << R1, <<" ">>, R2 >>

\* MERGE (u:User {login: ...}) matches on the login property and MERGE
\* (u:User {name: ...}) on the name property: a node that has only the one
\* never matches the other (third component: 0 merged on name, 1 on login)
UserLoginId(login) == <<"User", login, 1>>
\* likewise Repository {name: ...} beside Repository {full_name: ...}
RepositoryNameId(name) == <<"Repository", name, 1>>
LabelId(name) == <<"Label", name, 0>>

\* since = datetime.now() - timedelta(days=1), on the clock of the model
Since == 1
MaxItems == 3

\* an issue or a pull request as the API holds it
GhItem(isPr, repo, n, login, updated) ==
    [pull_request |-> isPr, repository |-> repo, organization |-> <<"o">>,
     number |-> n, title |-> <<"t">>, body |-> << >>, state |-> "open",
     created |-> 0, updated |-> updated, author |-> login, url |-> <<"u">>,
     assignees |-> << <<"a">> >>, labels |-> << <<"l">> >>,
     merged |-> FALSE, base_branch |-> <<"m">>, head_branch |-> <<"f">>]

\* what source control may hold, in the order in which it lists it
GitHubApiPool ==
    << GhItem(FALSE, R1, 1, <<"b">>, 1),
       GhItem(TRUE, R1, 2, <<"b">>, 1),
       GhItem(TRUE, R1, 3, <<"c">>, 0),
       GhItem(TRUE, R1, 4, <<"c">>, 1),
       GhItem(FALSE, R2, 1, <<"c">>, 1) >>

GitHubApiStates == {s \in SubSeqs(GitHubApiPool) : Len(s) <= MaxItems}

\* fetch_repository_issues when the API answers: the issues of the repository
\* updated since yesterday, without the pull requests among them
fetch_repository_issues(up, repo_full_name) ==
    Map(SelectSeq(up, LAMBDA r : /\ r.repository = repo_full_name
                                 /\ r.updated >= Since
                                 /\ ~r.pull_request),
        LAMBDA issue :
            [number |-> issue.number, title |-> issue.title, body |-> issue.body,
             state |-> issue.state, created |-> issue.created,
             updated |-> issue.updated, repository |-> issue.repository,
             organization |-> issue.organization, author |-> issue.author,
             url |-> issue.url, assignees |-> issue.assignees,
             labels |-> issue.labels])

\* repo.get_pulls(state='all', sort='updated', direction='desc')
get_pulls(up, repo_full_name) ==
    LET prs == SelectSeq(up, LAMBDA r : r.repository = repo_full_name /\ r.pull_request)
    IN  SelectSeq(prs, LAMBDA r : r.updated = 1) \o SelectSeq(prs, LAMBDA r : r.updated = 0)

\* for pr in ...: if pr.updated_at < since: break
RECURSIVE UntilOlder(_)
UntilOlder(prs) ==
    IF prs = << >> \/ Head(prs).updated < Since THEN << >>
    ELSE <<Head(prs)>> \o UntilOlder(Tail(prs))

\* fetch_repository_prs when the API answers
fetch_repository_prs(up, repo_full_name) ==
    Map(UntilOlder(get_pulls(up, repo_full_name)),
        LAMBDA pr :
            [number |-> pr.number, title |-> pr.title, body |-> pr.body,
             state |-> pr.state, created |-> pr.created, updated |-> pr.updated,
             merged |-> pr.merged, merged_at |-> None,
             repository |-> pr.repository, organization |-> pr.organization,
             author |-> pr.author, url |-> pr.url, assignees |-> pr.assignees,
             labels |-> pr.labels, base_branch |-> pr.base_branch,
             head_branch |-> pr.head_branch])

RECURSIVE MergeLabels(_, _, _)
MergeLabels(g, n, labels) ==
    IF labels = << >> THEN g
    ELSE LET rest(v) == MergeLabels(v, n, Tail(labels))
         IN  Then([nodes |-> MergeNode(g.nodes, LabelId(Head(labels))),
                   edges |-> MergeEdge(g.edges, <<"HAS_LABEL", n, LabelId(Head(labels))>>)],
                  rest)

RECURSIVE MergeAssignees(_, _, _)
MergeAssignees(g, n, assignees) ==
    IF assignees = << >> THEN g
    ELSE LET rest(v) == MergeAssignees(v, n, Tail(assignees))
         IN  Then([nodes |-> MergeNode(g.nodes, UserLoginId(Head(assignees))),
                   edges |-> MergeEdge(g.edges,
                                <<"ASSIGNED_TO", n, UserLoginId(Head(assignees))>>)],
                  rest)

\* the parameters the default issue query binds
IssueParameters ==
    {"number", "repo", "title", "body", "state", "created", "updated", "owner",
     "full_name", "author", "assignees", "labels"}

\* session.run(self.github_cypher, issue) with the default query: the store
\* raises when a parameter the query binds is not supplied
github_cypher(g, params) ==
    IF ~(IssueParameters \subseteq DOMAIN params) THEN Raise
    ELSE LET i  == GitHubId(params.repo, params.number)
             r  == RepositoryNameId(params.repo)
             u  == UserLoginId(params.author)
             n1 == SetNode(MergeNode(g.nodes, i), i,
                     [title |-> params.title, body |-> params.body,
                      state |-> params.state, created |-> params.created,
                      updated |-> params.updated])
             n2 == SetNode(MergeNode(n1, r), r,
                     [owner |-> params.owner, full_name |-> params.full_name])
             n3 == MergeNode(n2, u)
             e1 == MergeEdge(MergeEdge(g.edges, <<"BELONGS_TO", i, r>>),
                             <<"CREATED_BY", i, u>>)
         IN  MergeLabels(MergeAssignees([nodes |-> n3, edges |-> e1], i,
                                        params.assignees),
                         i, params.labels)

\* the record of fetch_repository_issues under the names the default issue
\* query binds
WithQueryNames(issue) ==
    issue @@ [repo |-> issue.repository, owner |-> issue.organization,
              full_name |-> issue.repository]

\* the parameters the default pull request query binds
PrParameters ==
    {"repository", "number", "title", "body", "state", "merged", "created",
     "updated", "merged_at", "author", "url", "base_branch", "head_branch",
     "labels", "organization"}

\* session.run(pr_cypher, pr) with the default query
pr_cypher(g, params) ==
    IF ~(PrParameters \subseteq DOMAIN params) THEN Raise
    ELSE LET pr == PullRequestId(params.repository, params.number)
             r  == RepositoryId(params.repository)
             o  == OrgId(params.organization)
             u  == UserId(params.author)
             parts == Split(params.repository, "/")
             n1 == SetNode(MergeNode(g.nodes, pr), pr,
                     [title |-> params.title, body |-> params.body,
                      state |-> params.state, merged |-> params.merged,
                      created |-> params.created, updated |-> params.updated,
                      merged_at |-> params.merged_at, author |-> params.author,
                      url |-> params.url, base_branch |-> params.base_branch,
                      head_branch |-> params.head_branch,
                      labels |-> params.labels,
                      organization |-> params.organization,
                      lastSynced |-> "this_run"])
             n2 == SetNode(MergeNode(n1, r), r,
                     [name |-> IF Len(parts) >= 2 THEN Str(parts[2]) ELSE None,
                      owner |-> params.organization])
             n3 == MergeNode(MergeNode(n2, o), u)
             e1 == MergeEdge(MergeEdge(MergeEdge(g.edges, <<"BELONGS_TO", pr, r>>),
                                       <<"OWNED_BY", r, o>>),
                             <<"CREATED_BY", pr, u>>)
         IN  MergeLabels([nodes |-> n3, edges |-> e1], pr, params.labels)

\* the tracked items JiraETL may have loaded into the store before
TrackedLoads ==
    {s \in SubSeqs(<< transform_issue(JiraApiPool[1].doc),
                      transform_issue(JiraApiPool[3].doc) >>) : TRUE}

RECURSIVE LoadTracked(_, _)
LoadTracked(g, issues) ==
    IF issues = << >> THEN g
    ELSE LET rest(v) == LoadTracked(v, Tail(issues))
         IN  Then(jira_cypher(g, Head(issues)), rest)

\* hist.fetched_issues, hist.fetched_prs: what the fetches returned;
\* hist.writes: the records the running loader has passed to session.run;
\* hist.givenUp: the records whose write raised; hist.storeRejected: the
\* store has raised on a write whose parameters were all supplied;
\* hist.sessionRaised: opening a session has raised; hist.fetchRaised: a
\* fetch has raised; hist.tracked: the tracked items loaded before
GhHist ==
    [fetched_issues |-> << >>, fetched_prs |-> << >>, writes |-> << >>,
     givenUp |-> {}, storeRejected |-> FALSE, sessionRaised |-> FALSE,
     fetchRaised |-> FALSE, tracked |-> << >>]

\* run_etl is about to start on a store that JiraETL has loaded;
\* total_issues holds the two counters of run_etl
InitGitHubETL ==
    /\ upGithub \in GitHubApiStates
    /\ \E js \in TrackedLoads :
          /\ nodes = LoadTracked(EmptyGraph, js).nodes
          /\ edges = LoadTracked(EmptyGraph, js).edges
          /\ hist = [GhHist EXCEPT !.tracked = js]
    /\ pc = "run_etl"
    /\ project_no = 1
    /\ total_issues = [issues |-> 0, prs |-> 0]
    /\ github_issues = << >>
    /\ idx = 0
    /\ attempt = 1
    /\ upJira = << >>
    /\ includeClosed = FALSE
    /\ jira_issues = << >>
    /\ processed_items = [jira |-> 0, github |-> 0, links |-> 0]
    /\ pass = 0
    /\ page_start = 0 /\ stats = << >>

RecordId(r) == <<r.repository, r.number>>

\* a loop that leaves the batch at the record it is at
SkipRest(i, n) == n + 1

\* the step of `for issue in issues` / `for pr in prs` to the next record
NextRecord(i, n) == i + 1

\* the next repo_name of github_repos
NextRepo ==
    /\ pc' = "run_etl"
    /\ project_no' = project_no + 1

\* if not repo_name.strip(): continue
GhSkipBlankRepo ==
    /\ pc = "run_etl"
    /\ project_no <= Len(github_repos)
    /\ Blank(github_repos[project_no])
    /\ project_no' = project_no + 1
    /\ UNCHANGED <<sync, upJira, pc, attempt, jira_issues, idx, nodes, edges,
                   page_start, total_issues, stats, hist>>

\* issues = self.fetch_repository_issues(repo_name); a fetch that raises
\* returns []; `if issues:` skips the loader
GhFetchIssues ==
    /\ pc = "run_etl"
    /\ project_no <= Len(github_repos)
    /\ ~Blank(github_repos[project_no])
    /\ \E raises \in BOOLEAN :
          \E issues \in {IF raises THEN << >>
                         ELSE fetch_repository_issues(upGithub,
                                                      github_repos[project_no])} :
             /\ github_issues' = issues
             /\ pc' = IF issues = << >> THEN "fetch_prs" ELSE "load_issues"
             /\ hist' = [hist EXCEPT !.fetched_issues = @ \o issues,
                                     !.fetchRaised = @ \/ raises,
                                     !.writes = << >>]
    /\ idx' = 1
    /\ attempt' = 1
    /\ UNCHANGED <<upJira, upGithub, includeClosed, jira_issues, nodes, edges,
                   processed_items, pass, etl>>

\* with self.driver.session() raises: the retry decorator runs the loader
\* again, and after the third attempt run_etl logs it and takes the next
\* repository
GhSessionRaises ==
    /\ pc \in {"load_issues", "load_prs"}
    /\ idx = 1
    /\ hist' = [hist EXCEPT !.sessionRaised = TRUE]
    /\ IF stop_after_attempt(attempt, TRUE) = "retry"
       THEN attempt' = attempt + 1 /\ UNCHANGED <<pc, project_no>>
       ELSE attempt' = attempt /\ NextRepo
    /\ UNCHANGED <<sync, upJira, jira_issues, idx, nodes, edges, page_start,
                   total_issues, stats>>

\* one round of the loader's loop: session.run commits, or it raises and the
\* handler logs it
GhLoad(query(_, _)) ==
    /\ idx <= Len(github_issues)
    /\ \E fault \in BOOLEAN :
          \E r \in {query(Graph, github_issues[idx])} :
             /\ IF fault \/ Raised(r) THEN UNCHANGED <<nodes, edges>> ELSE Commit(r)
             /\ hist' = [hist EXCEPT
                           !.writes = Append(@, RecordId(github_issues[idx])),
                           !.givenUp = IF fault \/ Raised(r)
                                       THEN @ \cup {RecordId(github_issues[idx])}
                                       ELSE @,
                           !.storeRejected = @ \/ (fault /\ ~Raised(r))]
    /\ idx' = NextRecord(idx, Len(github_issues))
    /\ UNCHANGED <<sync, upJira, pc, attempt, jira_issues, etl>>

\* load_issues_to_neo4j: for issue in issues
GhLoadIssue ==
    /\ pc = "load_issues"
    /\ GhLoad(github_cypher)

\* load_issues_to_neo4j returns: total_issues += len(issues)
GhIssuesLoaded ==
    /\ pc = "load_issues"
    /\ idx > Len(github_issues)
    /\ total_issues' = [total_issues EXCEPT !.issues = @ + Len(github_issues)]
    /\ pc' = "fetch_prs"
    /\ UNCHANGED <<sync, upJira, attempt, jira_issues, idx, nodes, edges,
                   project_no, page_start, stats, hist>>

\* prs = self.fetch_repository_prs(repo_name); `if prs:` skips the loader
GhFetchPrs ==
    /\ pc = "fetch_prs"
    /\ \E raises \in BOOLEAN :
          \E prs \in {IF raises THEN << >>
                      ELSE fetch_repository_prs(upGithub, github_repos[project_no])} :
             /\ github_issues' = prs
             /\ IF prs = << >> THEN NextRepo
                ELSE pc' = "load_prs" /\ UNCHANGED project_no
             /\ hist' = [hist EXCEPT !.fetched_prs = @ \o prs,
                                     !.fetchRaised = @ \/ raises,
                                     !.writes = << >>]
    /\ idx' = 1
    /\ attempt' = 1
    /\ UNCHANGED <<upJira, upGithub, includeClosed, jira_issues, nodes, edges,
                   processed_items, pass, page_start, total_issues, stats>>

\* load_prs_to_neo4j: for pr in prs
GhLoadPr ==
    /\ pc = "load_prs"
    /\ GhLoad(pr_cypher)

\* load_prs_to_neo4j returns: total_prs += len(prs), next repository
GhPrsLoaded ==
    /\ pc = "load_prs"
    /\ idx > Len(github_issues)
    /\ total_issues' = [total_issues EXCEPT !.prs = @ + Len(github_issues)]
    /\ NextRepo
    /\ UNCHANGED <<sync, upJira, attempt, jira_issues, idx, nodes, edges,
                   page_start, stats, hist>>

\* the loop over github_repos is exhausted
GhCompleted ==
    /\ pc = "run_etl"
    /\ project_no > Len(github_repos)
    /\ pc' = "etl_done"
    /\ UNCHANGED <<sync, upJira, attempt, jira_issues, idx, nodes, edges, etl, hist>>

NextGitHubETL ==
    \/ GhSkipBlankRepo
    \/ GhFetchIssues
    \/ GhSessionRaises
    \/ GhLoadIssue
    \/ GhIssuesLoaded
    \/ GhFetchPrs
    \/ GhLoadPr
    \/ GhPrsLoaded
    \/ GhCompleted

SpecGitHubETL == InitGitHubETL /\ [][NextGitHubETL]_vars

-----------------------------------------------------------------------------
(* JiraGitHubETL._fetch_jira_batch: the page loop, one iteration per step *)

\* One call of _fetch_jira_batch with the open-items filter.  hist.batch_size
\* is config jira.batch_size of the run; page_start is start_at and
\* jira_issues the list `issues`.
MaxBatch == 2
\* the model stops a loop that has collected this many issues
MaxFetched == 6

InitPage ==
    /\ upJira \in JiraUpstreams
    /\ \E n \in 0..MaxBatch : hist = [batch_size |-> n]
    /\ pc = "search_issues"
    /\ page_start = 0
    /\ jira_issues = << >>
    /\ upGithub = << >>
    /\ includeClosed = FALSE
    /\ attempt = 1
    /\ github_issues = << >>
    /\ idx = 0
    /\ nodes = << >>
    /\ edges = << >>
    /\ processed_items = [jira |-> 0, github |-> 0, links |-> 0]
    /\ pass = 1
    /\ project_no = 0 /\ total_issues = 0 /\ stats = << >>

Batch == search_issues(OpenMatches(upJira), page_start, hist.batch_size)

\* if not batch: break
PageEmpty ==
    /\ pc = "search_issues"
    /\ Batch = << >>
    /\ pc' = "returned"
    /\ UNCHANGED <<sync, upJira, attempt, jira_issues, idx, nodes, edges, etl, hist>>

\* _convert_jira_issue raises on a record of the page
PageRaises ==
    /\ pc = "search_issues"
    /\ \E i \in 1..Len(Batch) : Raised(_convert_jira_issue(Batch[i]))
    /\ pc' = "raised"
    /\ UNCHANGED <<sync, upJira, attempt, jira_issues, idx, nodes, edges, etl, hist>>

\* the page is converted and appended, start_at advances, the process sleeps,
\* and the loop ends on a page shorter than batch_size
PageLoaded ==
    /\ pc = "search_issues"
    /\ Batch # << >>
    /\ \A i \in 1..Len(Batch) : ~Raised(_convert_jira_issue(Batch[i]))
    /\ Len(jira_issues) < MaxFetched
    /\ jira_issues' = jira_issues \o Map(Batch, _convert_jira_issue)
    /\ page_start' = page_start + hist.batch_size
    /\ pc' = IF Len(Batch) < hist.batch_size THEN "returned" ELSE "search_issues"
    /\ UNCHANGED <<sync, upJira, attempt, idx, nodes, edges, project_no,
                   total_issues, stats, hist>>

NextPage == PageEmpty \/ PageRaises \/ PageLoaded

SpecPage == InitPage /\ [][NextPage]_vars

-----------------------------------------------------------------------------
(* JiraGitHubETL._filter_closed_with_open_deps applied to fetched lists *)

\* _fetch_jira_issues after both lists are fetched: jira_issues is all_issues
\* (the open issues), hist.recent_closed the closed ones; the store holds
\* what earlier passes left.
MaxClosed == 3
MaxOpen == 2

ListsOf(S, n) == UNION {[1..k -> S] : k \in 0..n}

ClosedPool ==
    {_convert_jira_issue([JBase EXCEPT !.key = k, !.status = "Closed"]) :
        k \in {K1, K3}}

OpenPool ==
    {_convert_jira_issue([JBase EXCEPT !.key = K2, !.description = d]) :
        d \in {<<"x">>, <<"x", " ">> \o K1, K3 \o <<" ">> \o K1}}

InitFilter ==
    /\ \E open_issues \in ListsOf(OpenPool, MaxOpen),
          recent_closed \in ListsOf(ClosedPool, MaxClosed) :
          /\ jira_issues = open_issues
          /\ hist = [open_issues |-> open_issues, recent_closed |-> recent_closed]
    /\ includeClosed \in BOOLEAN
    /\ \E g \in {EmptyGraph,
                  _create_jira_issue(EmptyGraph,
                      _convert_jira_issue([JBase EXCEPT !.status = "Closed"]),
                      "earlier_pass")} :
          nodes = g.nodes /\ edges = g.edges
    /\ pc = "filter"
    /\ upJira = << >>
    /\ upGithub = << >>
    /\ attempt = 1
    /\ github_issues = << >>
    /\ idx = 0
    /\ processed_items = [jira |-> 0, github |-> 0, links |-> 0]
    /\ pass = 1
    /\ project_no = 0 /\ page_start = 0 /\ total_issues = 0 /\ stats = << >>

\* filtered_closed = self._filter_closed_with_open_deps(recent_closed, open_issues)
\* all_issues.extend(filtered_closed)
FilterClosed ==
    /\ pc = "filter"
    /\ jira_issues' = jira_issues \o
          _filter_closed_with_open_deps(hist.recent_closed, jira_issues,
                                        includeClosed)
    /\ pc' = "filtered"
    /\ UNCHANGED <<sync, upJira, attempt, idx, nodes, edges, etl, hist>>

NextFilter == FilterClosed

SpecFilter == InitFilter /\ [][NextFilter]_vars

-----------------------------------------------------------------------------
(* CrossReferenceETL: hierarchy derivation over a store that is reloaded *)

\* The loader upserts tracked items between the runs of CrossReferenceETL: an
\* upsert overwrites the kind and the text of an Issue node.  `pass` counts the
\* upserts.  A derivation is one execution of create_hierarchy_relationships
\* that the store answers.
HierKinds == {"Epic", "Story", "Task"}
HierTexts == {<< >>, K1, K2}

\* the queries qs run one after the other, each committed as it returns
RECURSIVE RunStep(_, _)
RunStep(g, qs) ==
    IF qs = << >> THEN g
    ELSE Then(RunQuery(g, Head(qs)),
              LAMBDA r : IF Raised(r) THEN g ELSE RunStep(r.g, Tail(qs)))

InitHier ==
    /\ \E is \in {x \in SubSeqs(XIssuePool) : Len(x) <= MaxJira} :
          nodes = WithIssues(EmptyGraph, is).nodes
    /\ edges = << >>
    /\ upJira = << >>
    /\ upGithub = << >>
    /\ includeClosed = FALSE
    /\ pc = "create_hierarchy_relationships"
    /\ attempt = 1
    /\ jira_issues = << >>
    /\ github_issues = << >>
    /\ idx = 1
    /\ processed_items = [jira |-> 0, github |-> 0, links |-> 0]
    /\ pass = 0
    /\ project_no = 0 /\ page_start = 0 /\ total_issues = 0
    /\ stats = NoStats
    /\ hist = EtlHist

\* the loader upserts an item whose kind and description have changed
HierUpsert ==
    /\ pass < MaxPasses
    /\ \E id \in NodesOf(nodes, "Issue"), kind \in HierKinds, text \in HierTexts :
          nodes' = SetNode(nodes, id, [issueType |-> kind, description |-> text])
    /\ pass' = pass + 1
    /\ UNCHANGED <<etl, upJira, upGithub, includeClosed, pc, attempt, jira_issues,
                   github_issues, idx, edges, processed_items, hist>>

\* create_hierarchy_relationships: its three queries
HierDerive ==
    /\ Commit(RunStep(Graph, create_hierarchy_relationships))
    /\ UNCHANGED <<sync, upJira, pc, attempt, jira_issues, idx, etl, hist>>

NextHier == HierUpsert \/ HierDerive

SpecHier == InitHier /\ [][NextHier]_vars

-----------------------------------------------------------------------------
(* JiraGitHubETL: two passes that load into one store at the same time *)

\* Two processes run main() against the same store.  Each has its own pc, idx,
\* jira_issues, github_issues and processed_items, which hold one value per
\* pass below; the first has fetched before the upstream records were edited,
\* the second after.  A step is one session.execute_write of the load loops
\* of _load_to_neo4j, which the store commits as a whole.
Passes == {1, 2}

InitPair ==
    /\ \E uj \in JiraUpstreams, ug \in GithubUpstreams, edited \in BOOLEAN :
          /\ includeClosed \in BOOLEAN
          /\ upJira = (IF edited THEN [i \in 1..Len(uj) |-> EditJira(uj[i])] ELSE uj)
          /\ upGithub = (IF edited THEN [i \in 1..Len(ug) |-> EditGithub(ug[i])] ELSE ug)
          /\ ~Raised(_fetch_jira_issues(uj, includeClosed))
          /\ jira_issues = [p \in Passes |->
                 _fetch_jira_issues(IF p = 1 THEN uj ELSE upJira, includeClosed).issues]
          /\ github_issues = [p \in Passes |->
                 _fetch_github_issues(IF p = 1 THEN ug ELSE upGithub, {})]
    /\ pc = [p \in Passes |-> "load_jira"]
    /\ idx = [p \in Passes |-> 1]
    /\ attempt = 0
    /\ nodes = << >>
    /\ edges = << >>
    /\ processed_items = [p \in Passes |-> [jira |-> 0, github |-> 0, links |-> 0]]
    /\ pass = 1
    /\ project_no = 0 /\ page_start = 0 /\ total_issues = 0 /\ stats = << >>
    /\ hist = NoHist

\* for issue in jira_issues: session.execute_write(self._create_jira_issue, issue)
PairLoadJira(p) ==
    /\ pc[p] = "load_jira"
    /\ idx[p] <= Len(jira_issues[p])
    /\ Commit(_create_jira_issue(Graph, jira_issues[p][idx[p]], "this_pass"))
    /\ processed_items' = [processed_items EXCEPT ![p].jira = @ + 1]
    /\ idx' = [idx EXCEPT ![p] = @ + 1]
    /\ UNCHANGED <<etl, upJira, upGithub, includeClosed, pc, attempt, jira_issues,
                   github_issues, pass, hist>>

PairLoadJiraExit(p) ==
    /\ pc[p] = "load_jira"
    /\ idx[p] > Len(jira_issues[p])
    /\ pc' = [pc EXCEPT ![p] = "load_github"]
    /\ idx' = [idx EXCEPT ![p] = 1]
    /\ UNCHANGED <<etl, upJira, upGithub, includeClosed, attempt, jira_issues,
                   github_issues, nodes, edges, processed_items, pass, hist>>

\* for issue in github_issues: session.execute_write(self._create_github_issue, issue)
PairLoadGithub(p) ==
    /\ pc[p] = "load_github"
    /\ idx[p] <= Len(github_issues[p])
    /\ Commit(_create_github_issue(Graph, github_issues[p][idx[p]], "this_pass"))
    /\ processed_items' = [processed_items EXCEPT ![p].github = @ + 1]
    /\ idx' = [idx EXCEPT ![p] = @ + 1]
    /\ UNCHANGED <<etl, upJira, upGithub, includeClosed, pc, attempt, jira_issues,
                   github_issues, pass, hist>>

PairLoadGithubExit(p) ==
    /\ pc[p] = "load_github"
    /\ idx[p] > Len(github_issues[p])
    /\ pc' = [pc EXCEPT ![p] = "xref"]
    /\ idx' = [idx EXCEPT ![p] = 0]
    /\ UNCHANGED <<etl, upJira, upGithub, includeClosed, attempt, jira_issues,
                   github_issues, nodes, edges, processed_items, pass, hist>>

NextPair ==
    \/ \E p \in Passes : PairLoadJira(p)
    \/ \E p \in Passes : PairLoadJiraExit(p)
    \/ \E p \in Passes : PairLoadGithub(p)
    \/ \E p \in Passes : PairLoadGithubExit(p)

SpecPair == InitPair /\ [][NextPair]_vars

-----------------------------------------------------------------------------
(* Properties of the resolvers *)

RefKinds ==
    {"ADDRESSES", "TRACKED_IN", "IMPLEMENTS", "IMPLEMENTED_IN",
     "REFERENCES", "REFERENCED_BY", "CHILD_OF", "PARENT_OF"}

\* tracked-item and activity nodes
TrackedOrActivity(ns) ==
    {id \in DOMAIN ns : id[1] \in {"Issue", "JiraIssue", "GitHubIssue", "PullRequest"}}

NewRefEdges == {e \in DOMAIN edges' \ DOMAIN edges : e[1] \in RefKinds}

\* C3: every reference or hierarchy edge in the graph has both endpoint nodes
\* present; a step that creates such an edge creates no tracked-item or
\* activity node, and the tracked items and activities the edge joins existed
\* before the step
C3_NoDanglingEdges ==
    /\ [](\A e \in DOMAIN edges :
            e[1] \in RefKinds => e[2] \in DOMAIN nodes /\ e[3] \in DOMAIN nodes)
    /\ [][NewRefEdges # {} =>
            /\ TrackedOrActivity(nodes') = TrackedOrActivity(nodes)
            /\ \A e \in NewRefEdges :
                  /\ e[2] \in DOMAIN nodes
                  /\ e[3] \in DOMAIN nodes \/ e[3][1] = "Component"]_vars

\* references in both directions, a pull request's reference and a hierarchy
\* edge have been resolved, and a referenced key without a node was left out
C3_Witness ==
    /\ <<"ADDRESSES", GitHubId(R1, 1), IssueId(K1)>> \in DOMAIN edges
    /\ <<"IMPLEMENTS", PullRequestId(R1, 2), IssueId(K2)>> \in DOMAIN edges
    /\ <<"REFERENCES", IssueId(K1), GitHubId(R1, 1)>> \in DOMAIN edges
    /\ <<"CHILD_OF", IssueId(K2), IssueId(K1)>> \in DOMAIN edges
    /\ IssueId(<<"P", "-", "9">>) \notin DOMAIN nodes

-----------------------------------------------------------------------------
(* Properties of JiraETL.run_etl *)

\* the records of the tracker that are well formed and belong to a configured
\* project
WellFormedUp ==
    {upJira[i].doc : i \in {k \in 1..Len(upJira) :
        /\ WellFormed(upJira[k].doc)
        /\ \E n \in 1..Len(jira_projects) : jira_projects[n] = upJira[k].project}}

\* C8 as claimed: when no fetch and no write has failed, a finished run has
\* upserted every well-formed record the tracker holds, whatever malformed
\* records share their pages or precede them
C8_SkipOnMalformed ==
    (pc = "etl_done" /\ ~hist.fetchRaised /\ ~hist.storeRejected)
        => \A doc \in WellFormedUp : IssueId(doc.key) \in DOMAIN nodes

-----------------------------------------------------------------------------
(* Properties of the retry wrapper *)

AllFail(execs) == \A i \in 1..Len(execs) : execs[i] = "fail"

\* C10: a retry-wrapped call executes the operation at most 3 times; every
\* execution but the last one failed; the call returns exactly when an
\* execution succeeds, and no execution follows it; the call raises to its
\* caller exactly when 3 executions have failed; the operation is executed
\* again only after a failed execution
C10_BoundedRetry ==
    /\ [](/\ Len(hist.call.execs) <= 3
          /\ AllFail(SubSeq(hist.call.execs, 1, Len(hist.call.execs) - 1))
          /\ hist.call.result = "returned"
                <=> /\ hist.call.execs # << >>
                    /\ hist.call.execs[Len(hist.call.execs)] = "ok"
          /\ hist.call.result = "raised"
                <=> Len(hist.call.execs) = 3 /\ AllFail(hist.call.execs)
          /\ hist.call.result = "running"
                => /\ hist.call.execs # << >>
                   /\ AllFail(hist.call.execs)
                   /\ pc \in {"fetch", "load"} \/ InStep)
    /\ [][/\ (hist'.call # hist.call /\ hist'.call.result = "raised")
               => pc' \in {"run_etl", "xref_failed"}
          /\ (hist'.call # hist.call /\ hist'.call.result = "returned")
               => pc' # pc \/ idx' # idx
          /\ (pc' = pc /\ attempt' # attempt)
               => /\ attempt' = attempt + 1
                  /\ hist'.call.result = "running"
                  /\ Len(hist'.call.execs) = attempt]_vars

\* a call that raised after its third failed execution
C10_Witness ==
    /\ hist.call.execs = <<"fail", "fail", "fail">>
    /\ hist.call.result = "raised"
    /\ pc = "xref_failed"

-----------------------------------------------------------------------------
(* Properties of the record loop of load_to_neo4j *)

\* how many times session.run has been executed on record r of the page
WriteTries(r) == Cardinality({i \in 1..Len(hist.writes) : hist.writes[i] = r})

\* C11: a record whose graph-store write fails inside load_to_neo4j is
\* attempted again before the loop gives it up: every record given up on has
\* had more than one execution of its write.
C11_WriteRetried == \A r \in hist.givenUp : WriteTries(r) > 1

-----------------------------------------------------------------------------
(* Properties of the waits between attempts *)

\* C12: when all three attempts of a retry-wrapped operation have failed, the
\* wait before the third attempt was strictly longer than the wait before the
\* second (tenacity: wait_exponential(multiplier=1, min=4, max=10)).
C12_IncreasingBackoff ==
    (hist.call.result = "raised" /\ Len(hist.call.waits) = 2)
        => hist.call.waits[2] > hist.call.waits[1]

\* the same for the wrapper of retrying (wait_exponential_multiplier=1000)
RetryingBackoffIncreases ==
    Len(hist.jiraWaits) = 2 => hist.jiraWaits[2] > hist.jiraWaits[1]

-----------------------------------------------------------------------------
(* Properties of the cross-reference edges *)

Occurrences(s, x) == Cardinality({i \in 1..Len(s) : s[i] = x})

\* the keys the configured patterns extract from the text of GitHubIssue g,
\* one entry per match of each pattern
JiraRefs(g) ==
    FlatMap(jira_reference_patterns,
            LAMBDA pattern : FindAll(pattern, Coalesce(nodes[g].p, "body") \o SP
                                              \o Coalesce(nodes[g].p, "title")))

\* _create_cross_references of the running pass has committed
Resolved == pc \in {"tech", "comp", "cleanup", "done"}

\* C13: however often the text of an activity mentions the key of an existing
\* tracked item, once resolution has run there is exactly one ADDRESSES edge
\* from the activity to the item and exactly one TRACKED_IN edge back, in the
\* first pass and in every later one; no such edge is ever doubled.
C13_OneEdgePair ==
    /\ \A e \in DOMAIN edges : e[1] \in {"ADDRESSES", "TRACKED_IN"} => edges[e] = 1
    /\ Resolved =>
         \A g \in NodesOf(nodes, "GitHubIssue"), j \in NodesOf(nodes, "JiraIssue") :
            Occurrences(JiraRefs(g), j[2]) > 0
                => /\ <<"ADDRESSES", g, j>> \in DOMAIN edges
                   /\ <<"TRACKED_IN", j, g>> \in DOMAIN edges

\* a second pass has resolved an activity that mentions one key twice
C13_Witness ==
    /\ Resolved /\ pass = 2 /\ hist.prevOutcome = "done"
    /\ \E g \in NodesOf(nodes, "GitHubIssue"), j \in NodesOf(nodes, "JiraIssue") :
          /\ Occurrences(JiraRefs(g), j[2]) >= 2
          /\ edges[<<"ADDRESSES", g, j>>] = 1
          /\ edges[<<"TRACKED_IN", j, g>>] = 1

\* the relationship types that come in pairs: <<type, type of the inverse>>
Pairs ==
    { <<"ADDRESSES", "TRACKED_IN">>, <<"IMPLEMENTS", "IMPLEMENTED_IN">>,
      <<"REFERENCES", "REFERENCED_BY">>, <<"CHILD_OF", "PARENT_OF">> }

\* IMPLEMENTS is paired when it leaves a PullRequest (a Repository IMPLEMENTS
\* a Component without an inverse)
Paired(e) == e[1] = "IMPLEMENTS" => e[2][1] = "PullRequest"

\* C14: in every committed state of the graph each edge of a paired type has
\* its inverse: ADDRESSES g->j iff TRACKED_IN j->g, IMPLEMENTS pr->j iff
\* IMPLEMENTED_IN j->pr, REFERENCES j->g iff REFERENCED_BY g->j, and
\* CHILD_OF c->p iff PARENT_OF p->c.
C14_PairsComplete ==
    \A e \in DOMAIN edges : \A t \in Pairs :
        /\ (e[1] = t[1] /\ Paired(e)) => <<t[2], e[3], e[2]>> \in DOMAIN edges
        /\ e[1] = t[2] => <<t[1], e[3], e[2]>> \in DOMAIN edges

\* a step has been interrupted and taken up again with edges of all four pairs
\* in the graph
C14_Witness ==
    /\ \A t \in Pairs : \E e \in DOMAIN edges : e[1] = t[1] /\ Paired(e)
    /\ hist.faults > 0

-----------------------------------------------------------------------------
(* Properties of a resolution miss *)

\* the step's next query is a reference query
AtRefQuery == InStep /\ idx <= Len(Queries(pc)) /\ Queries(pc)[idx].kind = "refs"

\* the existing nodes that candidate c of the reference query q names
Named(ns, q, c) ==
    {t \in NodesOf(ns, q.target) :
        IF q.target = "Issue" THEN t[2] = c ELSE t[3] = TextToInt(c)}

\* some candidate of the reference query q names no existing node
Misses(ns, q) ==
    \E s \in NodesOf(ns, q.src) :
        \E i \in 1..Len(Candidates(ns, q, s)) :
            Named(ns, q, Candidates(ns, q, s)[i]) = {}

\* C15: a candidate that names no existing target is passed over in silence:
\* the reference query does not raise, creates no node, creates no edge to or
\* from anything that does not exist, leaves every edge it found as it was,
\* and links every candidate (of the same and of the other sources) that does
\* name an existing target.
C15_MissIsNoOp ==
    /\ [](AtRefQuery => ~Raised(RunQuery(Graph, Queries(pc)[idx])))
    /\ [][(AtRefQuery /\ idx' = idx + 1) =>
            /\ nodes' = nodes
            /\ \A e \in DOMAIN edges : e \in DOMAIN edges' /\ edges'[e] = edges[e]
            /\ \A e \in DOMAIN edges' \ DOMAIN edges :
                  e[2] \in DOMAIN nodes /\ e[3] \in DOMAIN nodes
            /\ \A s \in NodesOf(nodes, Queries(pc)[idx].src) :
                  \A i \in 1..Len(Candidates(nodes, Queries(pc)[idx], s)) :
                     \A t \in Named(nodes, Queries(pc)[idx],
                                    Candidates(nodes, Queries(pc)[idx], s)[i]) :
                        /\ <<Queries(pc)[idx].out, s, t>> \in DOMAIN edges'
                        /\ <<Queries(pc)[idx].back, t, s>> \in DOMAIN edges'
         ]_vars

\* the first reference query has committed on a store where o/r#1 mentions
\* P-1, which exists, and P-9, which does not
C15_Witness ==
    /\ pc = "create_jira_github_references" /\ idx = 2
    /\ Misses(nodes, Queries(pc)[1])
    /\ <<"ADDRESSES", GitHubId(R1, 1), IssueId(K1)>> \in DOMAIN edges
    /\ IssueId(<<"P", "-", "9">>) \notin DOMAIN nodes

\* the same for _create_cross_references of JiraGitHubETL: the transaction
\* creates no node and no edge with an end that does not exist
SyncMissIsNoOp ==
    [][(pc = "xref" /\ pc' = "tech") =>
          /\ nodes' = nodes
          /\ \A e \in DOMAIN edges : e \in DOMAIN edges' /\ edges'[e] = edges[e]
          /\ \A e \in DOMAIN edges' \ DOMAIN edges :
                e[2] \in DOMAIN nodes /\ e[3] \in DOMAIN nodes
          /\ \A g \in NodesOf(nodes, "GitHubIssue"), j \in NodesOf(nodes, "JiraIssue") :
                Occurrences(JiraRefs(g), j[2]) > 0
                    => <<"ADDRESSES", g, j>> \in DOMAIN edges'
      ]_vars

-----------------------------------------------------------------------------
(* Properties of the target lookup *)

\* C16: a reference number N found in the text of a tracked item is resolved
\* to the one activity with the natural key (repository, N): no tracked item
\* REFERENCES two activities that have the same number in different
\* repositories.
C16_OneTargetPerNumber ==
    \A e1 \in DOMAIN edges, e2 \in DOMAIN edges :
        (/\ e1[1] = "REFERENCES" /\ e2[1] = "REFERENCES"
         /\ e1[2] = e2[2]
         /\ e1[3][3] = e2[3][3])
            => e1[3][2] = e2[3][2]

-----------------------------------------------------------------------------
(* Properties of the order of the upserts *)

\* the orderings of the sequence s
Perms(s) ==
    {[i \in 1..Len(s) |-> s[f[i]]] :
        f \in {h \in [1..Len(s) -> 1..Len(s)] :
                 \A i, j \in 1..Len(s) : h[i] = h[j] => i = j}}

NaturalKey(rec) ==
    IF rec.kind = "jira" THEN JiraId(rec.issue.key)
    ELSE GitHubId(rec.issue.repository, rec.issue.number)

DistinctKeys(records) ==
    \A i, j \in 1..Len(records) :
        NaturalKey(records[i]) = NaturalKey(records[j]) => i = j

\* C17: the load stage upserts every record before it resolves references, so
\* when the records of a pass have pairwise distinct natural keys the graph it
\* leaves (lastSynced aside) is the one any other order of the upserts would
\* have left, tracked items first or activities first; no upsert follows the
\* resolution within a pass.
C17_OrderIndependent ==
    /\ [](( /\ pc = "cleanup"
            /\ DistinctKeys(Tagged(jira_issues, github_issues)))
          => \A records \in Perms(Tagged(jira_issues, github_issues)) :
                IgnoreLastSynced(LoadInOrder(hist.curStart, records))
                    = IgnoreLastSynced(Graph))
    /\ [][(pc \in {"tech", "comp", "cleanup"})
            => pc' \notin {"load_jira", "load_github", "xref"}]_vars

\* a pass has loaded two tracked items and an activity that mentions one of
\* them, none of which was in the graph before
C17_Witness ==
    /\ pc = "cleanup"
    /\ Len(jira_issues) >= 2 /\ Len(github_issues) >= 1
    /\ hist.curStart = EmptyGraph
    /\ \E e \in DOMAIN edges : e[1] = "ADDRESSES"

-----------------------------------------------------------------------------
(* Properties of the hierarchy *)

\* create_hierarchy_relationships has returned
HierarchyDone ==
    pc \in {"create_user_relationships", "update_processing_metadata", "xref_done"}

Typed(types) ==
    {i \in NodesOf(nodes, "Issue") :
        "issueType" \in DOMAIN nodes[i].p /\ nodes[i].p.issueType \in types}

\* the summary or the description of issue i contains the key of issue k
TextHasKey(i, k) ==
    \/ Contains(Coalesce(nodes[i].p, "summary"), k[2])
    \/ Contains(Coalesce(nodes[i].p, "description"), k[2])

TaskLevel == {"Task", "Sub-task", "Bug"}

\* C18: once create_hierarchy_relationships has returned, a Story whose text
\* contains the key of an Epic is CHILD_OF that Epic and a Task, Sub-task or
\* Bug whose text contains the key of a Story is CHILD_OF that Story; and at
\* no time is a task-level item CHILD_OF an Epic, whether or not its text
\* contains the Epic's key.
C18_HierarchyOrdering ==
    /\ HierarchyDone =>
          /\ \A s \in Typed({"Story"}), e \in Typed({"Epic"}) :
                TextHasKey(s, e) => <<"CHILD_OF", s, e>> \in DOMAIN edges
          /\ \A b \in Typed(TaskLevel), s \in Typed({"Story"}) :
                TextHasKey(b, s) => <<"CHILD_OF", b, s>> \in DOMAIN edges
    /\ \A b \in Typed(TaskLevel), e \in Typed({"Epic"}) :
          <<"CHILD_OF", b, e>> \notin DOMAIN edges

\* Epic P-1, Story P-2 mentioning P-1, Task P-3 mentioning P-2 and P-1
C18_Witness ==
    /\ HierarchyDone
    /\ \E e \in Typed({"Epic"}), s \in Typed({"Story"}), b \in Typed(TaskLevel) :
          /\ TextHasKey(s, e) /\ TextHasKey(b, s) /\ TextHasKey(b, e)
          /\ <<"CHILD_OF", s, e>> \in DOMAIN edges
          /\ <<"CHILD_OF", b, s>> \in DOMAIN edges

-----------------------------------------------------------------------------
(* Properties of the tag nodes *)

\* _extract_technologies of the running pass has committed
TechnologiesDone == pc \in {"comp", "cleanup", "done"}

\* the technology names mentioned, in whatever case, in the texts a and b
Range(s) == {s[k] : k \in 1..Len(s)}
Mentioned(a, b) == Range(TechMatches(ToLower(a \o SP \o b), technology_patterns))

\* a text property of node id contains the word w exactly as written
WrittenAs(id, w) ==
    \E f \in DOMAIN nodes[id].p \cap {"summary", "description", "title", "body"} :
        Contains(nodes[id].p[f], w)

\* C19: the name of every Technology node is lower-case and the node exists
\* once; once _extract_technologies has run, every record of the pass that
\* mentions a technology, in upper, lower or mixed case, INVOLVES the one node
\* with the lower-case name, in the first pass and in every later one.
C19_TechnologyLowerCase ==
    /\ \A t \in NodesOf(nodes, "Technology") :
          t[2] = ToLower(t[2]) /\ nodes[t].cnt = 1
    /\ TechnologiesDone =>
          /\ \A i \in 1..Len(jira_issues) :
                \A m \in Mentioned(jira_issues[i].summary, jira_issues[i].description) :
                   <<"INVOLVES", JiraId(jira_issues[i].key), TechId(m)>> \in DOMAIN edges
          /\ \A i \in 1..Len(github_issues) :
                \A m \in Mentioned(github_issues[i].title, github_issues[i].body) :
                   <<"INVOLVES", GitHubId(github_issues[i].repository,
                                          github_issues[i].number), TechId(m)>>
                        \in DOMAIN edges

\* in the second pass two items, one that writes AB and one that writes ab,
\* are linked to the Technology node ab
C19_Witness ==
    /\ TechnologiesDone /\ pass = 2
    /\ \E e1 \in DOMAIN edges, e2 \in DOMAIN edges :
          /\ e1[1] = "INVOLVES" /\ e2[1] = "INVOLVES"
          /\ e1[3] = TechId(<<"a", "b">>) /\ e2[3] = TechId(<<"a", "b">>)
          /\ WrittenAs(e1[2], <<"A", "B">>)
          /\ WrittenAs(e2[2], <<"a", "b">>)

\* C20: the name of every Component node is in lower case, so entries of the
\* component mapping whose names differ only in letter case share one node.
C20_ComponentLowerCase ==
    \A c \in NodesOf(nodes, "Component") :
        /\ c[2] = ToLower(c[2])
        /\ \A d \in NodesOf(nodes, "Component") :
              ToLower(c[2]) = ToLower(d[2]) => c = d

-----------------------------------------------------------------------------
(* Properties of the page loop of JiraETL.run_etl *)

\* the tracker has answered every request and no exception has ended a page loop
Uninterrupted ==
    /\ \A i \in 1..Len(hist.requests) : hist.requests[i].answered
    /\ ~hist.broke

\* the configured projects that are not blank
Projects == {p \in 1..Len(jira_projects) : ~Blank(jira_projects[p])}

\* the records of the tracker that match project number p, in its order
Matching(p) == SelectSeq(upJira, LAMBDA r : r.project = jira_projects[p])

OffsetsOf(p) ==
    Map(SelectSeq(hist.requests, LAMBDA r : r.kind = "request" /\ r.project = p),
        LAMBDA r : r.startAt)

FetchedOf(p) ==
    Map(SelectSeq(hist.fetched, LAMBDA r : r.project = p), LAMBDA r : r.doc)

\* C21: against a tracker that holds N records of a project and answers every
\* request, the page loop requests the offsets 0, P, 2P, ... up to the first
\* page shorter than P: floor(N / P) + 1 requests in all, and the answers,
\* taken together, are the N records, each once, in the tracker's order.
C21_PaginationComplete ==
    (pc = "etl_done" /\ Uninterrupted) =>
        \A p \in Projects :
            /\ OffsetsOf(p) = [i \in 1..((Len(Matching(p)) \div PageSize) + 1)
                                  |-> (i - 1) * PageSize]
            /\ FetchedOf(p) = Map(Matching(p), LAMBDA r : r.doc)

\* a project with more records than one page holds has been fetched to the end
C21_Witness ==
    /\ pc = "etl_done" /\ Uninterrupted
    /\ \E p \in Projects :
          /\ Len(Matching(p)) > PageSize
          /\ Len(OffsetsOf(p)) >= 2

\* the same for _fetch_jira_batch of JiraGitHubETL: when every record converts,
\* the batch returned is the tracker's answer to the query, record by record
BatchReturnsAll ==
    \A matches \in {OpenMatches(upJira), ClosedMatches(upJira)} :
        ~Raised(_fetch_jira_batch(matches))
            => _fetch_jira_batch(matches).issues = Map(matches, _convert_jira_issue)

\* C22: between any two consecutive page requests of one paginated fetch the
\* process waits: no request for a page of a project directly follows another
\* request for a page of the same project.
C22_DelayBetweenPages ==
    \A i \in 1..(Len(hist.requests) - 1) :
        (/\ hist.requests[i].kind = "request"
         /\ hist.requests[i + 1].kind = "request")
            => hist.requests[i].project # hist.requests[i + 1].project

\* _fetch_jira_batch of JiraGitHubETL does sleep between two searches
BatchSleepsBetweenPages ==
    \A matches \in {OpenMatches(upJira), ClosedMatches(upJira)} :
        \A i \in 1..(Len(BatchStepsFrom(matches, 0)) - 1) :
            BatchStepsFrom(matches, 0)[i] = "search"
                => BatchStepsFrom(matches, 0)[i + 1] = "sleep"

-----------------------------------------------------------------------------
(* Properties of one upsert *)

\* the attributes of a tracked item and of an activity, as the node holds them
JiraAttributes(r) ==
    [summary |-> r.summary, description |-> r.description, status |-> r.status,
     priority |-> r.priority, issueType |-> r.issue_type, project |-> r.project,
     created |-> r.created, updated |-> r.updated, assignee |-> r.assignee,
     reporter |-> r.reporter, labels |-> r.labels, components |-> r.components]

GithubAttributes(r) ==
    [title |-> r.title, body |-> r.body, state |-> r.state, created |-> r.created,
     updated |-> r.updated, author |-> r.author, url |-> r.url, labels |-> r.labels,
     organization |-> r.organization, type |-> r.issue_type]

\* C23: whatever the graph held before, after the upsert of record r the node
\* with r's natural key exists once and each of its attributes has r's value,
\* the label and component lists being r's lists as a whole (lastSynced, which
\* is not an attribute of the record, aside).
C23_LastWriteWins ==
    [][/\ (pc = "load_jira" /\ idx' = idx + 1) =>
            /\ nodes'[JiraId(jira_issues[idx].key)].cnt = 1
            /\ Without(nodes'[JiraId(jira_issues[idx].key)].p, "lastSynced")
                  = JiraAttributes(jira_issues[idx])
       /\ (pc = "load_github" /\ idx' = idx + 1) =>
            /\ nodes'[GitHubId(github_issues[idx].repository,
                               github_issues[idx].number)].cnt = 1
            /\ Without(nodes'[GitHubId(github_issues[idx].repository,
                                       github_issues[idx].number)].p, "lastSynced")
                  = GithubAttributes(github_issues[idx])
      ]_vars

\* the second pass has upserted P-2 and o/r#1 over the nodes of the first pass,
\* whose text, labels and components were different
C23_Witness ==
    /\ pc = "xref" /\ pass = 2
    /\ JiraId(K2) \in DOMAIN hist.curStart.nodes
    /\ hist.curStart.nodes[JiraId(K2)].p.components = << <<"x">> >>
    /\ nodes[JiraId(K2)].p.components = << <<"A", "B">> >>
    /\ nodes[JiraId(K2)].p.labels = << >>
    /\ GitHubId(R1, 1) \in DOMAIN hist.curStart.nodes
    /\ hist.curStart.nodes[GitHubId(R1, 1)].p.body # nodes[GitHubId(R1, 1)].p.body

-----------------------------------------------------------------------------
(* Properties of the graph over the passes *)

\* every node and every edge of the graph before the step is in the graph
\* after it, as many times as before
Kept ==
    /\ \A id \in DOMAIN nodes : id \in DOMAIN nodes' /\ nodes'[id].cnt >= nodes[id].cnt
    /\ \A e \in DOMAIN edges : e \in DOMAIN edges' /\ edges'[e] >= edges[e]

\* C24: no step of a pass (upsert, cross-reference, technology, component
\* step, and the start and the failure of a pass) removes a node or an edge:
\* both sets only grow.  The cleanup step calls a procedure of the store and
\* is not a step of the engine.
C24_NoHardDeletion ==
    [][(pc # "cleanup") => Kept]_vars

\* the second pass has ended without fetching P-1, which the first pass had
\* fetched: its node is still there, and so is an edge that the data of the
\* second pass do not give
C24_Witness ==
    /\ pc = "done" /\ pass = 2
    /\ \E i \in 1..Len(hist.prevJira) : hist.prevJira[i].key = K1
    /\ jira_issues # << >>
    /\ \A j \in 1..Len(jira_issues) : jira_issues[j].key # K1
    /\ JiraId(K1) \in DOMAIN nodes
    /\ \E e \in DOMAIN hist.curStart.edges :
          /\ e \in DOMAIN edges
          /\ e \notin DOMAIN _load_to_neo4j([nodes |-> << >>, edges |-> << >>],
                                            jira_issues, github_issues).edges

\* the same for the steps of JiraETL.run_etl and of
\* CrossReferenceETL.run_cross_reference_processing
StepsKeepGraph == [][Kept]_vars

-----------------------------------------------------------------------------
(* Properties of the start of a run *)

\* C25: a program started with a required connection setting not set goes
\* from its start straight to the failed exit, the graph as it was; in that
\* exit no request was sent upstream and no write was issued, the status is
\* not zero, and nothing happens afterwards.
C25_StartupAbort ==
    /\ [][(pc \in {"JiraETL", "CrossReferenceETL"}) =>
            ((\E v \in DOMAIN hist'.env : ~hist'.env[v].set) =>
                /\ pc' = "startup_failed"
                /\ nodes' = nodes /\ edges' = edges)]_vars
    /\ [](pc = "startup_failed" =>
            /\ hist.requests = << >> /\ hist.writes = << >> /\ hist.call = NoCall
            /\ total_issues = 0
            /\ ExitStatus > 0)
    /\ [][pc # "startup_failed"]_vars

\* CrossReferenceETL was started on a store that holds issues, without
\* NEO4J_PASSWORD, and has exited
C25_Witness ==
    /\ pc = "startup_failed"
    /\ ~hist.env["NEO4J_PASSWORD"].set
    /\ hist.env["NEO4J_URI"].set
    /\ nodes # << >>

-----------------------------------------------------------------------------
(* Properties of the end of a run *)

\* C26: a run of JiraETL in which a page fetch still raised after the last
\* attempt of the retry wrapper does not end with status 0: the failure
\* reaches main(), which exits with a status that is not zero.
C26_ExhaustedFetchEscalates ==
    hist.fetchRaised => ExitStatus # 0

-----------------------------------------------------------------------------
(* Properties of the counters *)

\* C27: the 'links' counter of the full sync is the number of reference pairs
\* (an ADDRESSES edge with its TRACKED_IN edge) that the cross-reference step
\* of the pass has created in the graph; a pass over data already linked
\* reports zero.
C27_LinksCountCreatedEdges ==
    [][(pc = "xref" /\ pc' = "tech") =>
          processed_items'.links =
              Cardinality({e \in DOMAIN edges' \ DOMAIN edges : e[1] = "ADDRESSES"})]_vars

\* C28: when load_to_neo4j has returned, run_etl adds to total_issues the
\* number of records of the page whose write the store accepted; a record
\* whose write was rejected is not counted.
C28_CountsSuccessfulUpserts ==
    [][(pc = "load" /\ idx > Len(jira_issues)) =>
          total_issues' - total_issues
              = Len(jira_issues) - Cardinality(hist.givenUp)]_vars

\* the full sync counts an upsert when its transaction has committed
SyncCountsUpserts ==
    [][/\ (pc = "load_jira" /\ nodes' # nodes) =>
             processed_items'.jira = processed_items.jira + 1
       /\ (pc = "load_jira" /\ nodes' = nodes) =>
             processed_items'.jira = processed_items.jira]_vars

-----------------------------------------------------------------------------
(* Properties of two passes at the same time *)

\* the records with node id `id` that the two passes upsert
JiraRecordsOf(id) ==
    {r \in UNION {Range(jira_issues[p]) : p \in Passes} : JiraId(r.key) = id}

GithubRecordsOf(id) ==
    {r \in UNION {Range(github_issues[p]) : p \in Passes} :
        GitHubId(r.repository, r.number) = id}

\* pass p has upserted the i-th record of its list
Upserted(p, stage, i) ==
    IF pc[p] = stage THEN i < idx[p]
    ELSE stage = "load_jira" \/ pc[p] = "xref"

\* C29: in every interleaving of the upserts of two passes, a record that a
\* pass has upserted has exactly one node, and the attributes of the node of
\* a key are those of one of the records with that key, all of them from the
\* same record (lastSynced aside).
C29_ConcurrentUpsertsSafe ==
    /\ \A p \in Passes :
          /\ \A i \in 1..Len(jira_issues[p]) :
                Upserted(p, "load_jira", i)
                    => JiraId(jira_issues[p][i].key) \in DOMAIN nodes
          /\ \A i \in 1..Len(github_issues[p]) :
                Upserted(p, "load_github", i)
                    => GitHubId(github_issues[p][i].repository,
                                github_issues[p][i].number) \in DOMAIN nodes
    /\ \A id \in NodesOf(nodes, "JiraIssue") :
          /\ nodes[id].cnt = 1
          /\ \E r \in JiraRecordsOf(id) :
                Without(nodes[id].p, "lastSynced") = JiraAttributes(r)
    /\ \A id \in NodesOf(nodes, "GitHubIssue") :
          /\ nodes[id].cnt = 1
          /\ \E r \in GithubRecordsOf(id) :
                Without(nodes[id].p, "lastSynced") = GithubAttributes(r)

\* both passes have upserted their records of P-2 and of o/r#1, which differ:
\* P-2 holds the first pass's record and o/r#1 the second's
C29_Witness ==
    /\ \A p \in Passes : pc[p] = "xref"
    /\ Cardinality(JiraRecordsOf(JiraId(K2))) = 2
    /\ Cardinality(GithubRecordsOf(GitHubId(R1, 1))) = 2
    /\ \E r \in Range(jira_issues[1]) :
          /\ r.key = K2
          /\ Without(nodes[JiraId(K2)].p, "lastSynced") = JiraAttributes(r)
    /\ \E r \in Range(github_issues[2]) :
          /\ r.number = 1 /\ r.repository = R1
          /\ Without(nodes[GitHubId(R1, 1)].p, "lastSynced") = GithubAttributes(r)

-----------------------------------------------------------------------------
(* Properties of the technology candidates *)

\* the words of t (maximal runs of word characters), in text order
RECURSIVE WordsFrom(_, _, _)
WordsFrom(t, i, cur) ==
    IF i > Len(t) THEN (IF cur = << >> THEN << >> ELSE <<cur>>)
    ELSE IF t[i] \in WordChar THEN WordsFrom(t, i + 1, Append(cur, t[i]))
    ELSE (IF cur = << >> THEN << >> ELSE <<cur>>) \o WordsFrom(t, i + 1, << >>)

\* per pattern in the configured order, the words of t that are one of its
\* alternatives, in text order and as often as they occur
CandidatesInOrder(t) ==
    FlatMap(technology_patterns,
            LAMBDA q : SelectSeq(WordsFrom(t, 1, << >>),
                                 LAMBDA w : w \in Range(Alternatives(q))))

\* the texts that _extract_technologies matches for the records of the pass
PassTexts ==
    {ToLower(r.summary \o SP \o r.description) : r \in Range(jira_issues)}
    \cup {ToLower(r.title \o SP \o r.body) : r \in Range(github_issues)}

\* C30: for the text of every fetched record the candidates are, pattern by
\* pattern in the configured order, the matches of the pattern in text order,
\* one per match with repeats kept; a text without a match (the empty text
\* among them) gives the empty list.
C30_CandidatesInOrder ==
    \A t \in PassTexts : TechMatches(t, technology_patterns) = CandidatesInOrder(t)

\* the technology step has run on a pass with a text whose matches of the
\* second pattern come first in the text, a text that repeats a match, and a
\* text without a match
C30_Witness ==
    /\ pc = "comp"
    /\ \E t \in PassTexts :
          TechMatches(t, technology_patterns) = << <<"a", "b">>, <<"p">>, <<"x">> >>
          /\ WordsFrom(t, 1, << >>)[1] = <<"x">>
    /\ \E t \in PassTexts : TechMatches(t, technology_patterns) = << <<"p">>, <<"p">> >>
    /\ \E t \in PassTexts : TechMatches(t, technology_patterns) = << >>

-----------------------------------------------------------------------------
(* Properties of the statistics of CrossReferenceETL *)

\* the queries of all six steps, in the order of run_cross_reference_processing
AllQueries == FlatMap(Steps, LAMBDA step : Queries(step))

\* the statistics after the queries qs have each run once on g, none failing
RECURSIVE StatsOnce(_, _, _)
StatsOnce(g, st, qs) ==
    IF qs = << >> THEN st
    ELSE Then(RunQuery(g, Head(qs)),
              LAMBDA r : IF Raised(r) THEN st
                         ELSE StatsOnce(r.g,
                                        IF Head(qs).stat = "none" THEN st
                                        ELSE [st EXCEPT ![Head(qs).stat] = @ + r.count],
                                        Tail(qs)))

\* C33: at the end of a run that completed, whatever steps were executed again
\* after a failure, the statistics are those of a run on the same store in
\* which every step succeeded at its first attempt.
C33_StatsUnaffectedByRetries ==
    pc = "xref_done" => stats = StatsOnce(hist.start, NoStats, AllQueries)

\* a run without a failure reports the statistics of its queries run once
StatsOfCleanRun ==
    (pc = "xref_done" /\ hist.faults = 0)
        => stats = StatsOnce(hist.start, NoStats, AllQueries)

-----------------------------------------------------------------------------
(* Properties of the run of CrossReferenceETL *)

\* where run_cross_reference_processing may be after position p
After(p) ==
    CASE p = "CrossReferenceETL" -> {"create_jira_github_references", "startup_failed"}
      [] p = "create_jira_github_references" -> {"create_github_jira_references"}
      [] p = "create_github_jira_references" -> {"extract_technologies"}
      [] p = "extract_technologies" -> {"create_component_mappings"}
      [] p = "create_component_mappings" -> {"create_hierarchy_relationships"}
      [] p = "create_hierarchy_relationships" -> {"create_user_relationships"}
      [] p = "create_user_relationships" -> {"update_processing_metadata"}
      [] p = "update_processing_metadata" -> {"xref_done"}
      [] OTHER -> {}

\* the ProcessingMetadata node of g, << >> when it has none
Metadata(g) == IF MetadataId \in DOMAIN g.nodes THEN <<g.nodes[MetadataId]>> ELSE << >>

InCrossRef == After(pc) # {} \/ pc \in {"xref_done", "xref_failed"}

\* C34: the six steps run in the order jira->github references, github->jira
\* references, technologies, components, hierarchy, users, each one after the
\* one before it has returned, and the metadata step after the last; the
\* ProcessingMetadata node changes only in the step that ends the run; a
\* failed run takes no further step, its metadata is as the run found it, and
\* its exit status is not zero.
C34_MetadataMarksCompleteRuns ==
    /\ [][(InCrossRef /\ pc' # pc) => pc' \in After(pc) \cup {"xref_failed"}]_vars
    /\ [][(InCrossRef /\ Metadata(Graph)' # Metadata(Graph))
             => (pc = "update_processing_metadata" /\ pc' = "xref_done")]_vars
    /\ [][pc # "xref_failed"]_vars
    /\ [](pc = "xref_failed" =>
             Metadata(Graph) = Metadata(hist.start) /\ ExitStatus > 0)
    /\ [](pc = "xref_done" => Metadata(Graph) # << >>)

\* a run has failed after its first steps had written edges: no metadata
C34_Witness ==
    /\ pc = "xref_failed"
    /\ DOMAIN edges # DOMAIN hist.start.edges
    /\ MetadataId \notin DOMAIN nodes

-----------------------------------------------------------------------------
(* Properties of the hierarchy *)

ChildOf == {<<e[2], e[3]>> : e \in {x \in DOMAIN edges : x[1] = "CHILD_OF"}}

\* b is reached from a by one or more CHILD_OF edges, at most n of them
RECURSIVE Ancestor(_, _, _)
Ancestor(a, b, n) ==
    /\ n > 0
    /\ \/ <<a, b>> \in ChildOf
       \/ \E c \in NodesOf(nodes, "Issue") :
             <<a, c>> \in ChildOf /\ Ancestor(c, b, n - 1)

\* C35: whatever upserts and derivations have happened, no item is its own
\* ancestor by CHILD_OF edges (no self-loop, no cycle) and every CHILD_OF edge
\* goes from a Story to an Epic or from a Task, Sub-task or Bug to a Story.
C35_HierarchyAcyclic ==
    /\ \A a \in NodesOf(nodes, "Issue") :
          ~Ancestor(a, a, Cardinality(NodesOf(nodes, "Issue")))
    /\ \A e \in ChildOf :
          \/ HasType(nodes, e[1], {"Story"}) /\ HasType(nodes, e[2], {"Epic"})
          \/ HasType(nodes, e[1], {"Task", "Sub-task", "Bug"})
             /\ HasType(nodes, e[2], {"Story"})

\* in one run of CrossReferenceETL, on a store without earlier hierarchy
\* edges, the claim holds
HierarchyOfOneRun == InCrossRef => C35_HierarchyAcyclic

-----------------------------------------------------------------------------
(* Properties of the tag nodes *)

\* node id has an edge of one of the types coming in from a node of the graph
HasIncoming(ns, es, id, types) ==
    \E e \in DOMAIN es : e[1] \in types /\ e[3] = id /\ e[2] \in DOMAIN ns

NoOrphanTags(ns, es) ==
    /\ \A t \in NodesOf(ns, "Technology") : HasIncoming(ns, es, t, {"INVOLVES"})
    /\ \A c \in NodesOf(ns, "Component") :
          HasIncoming(ns, es, c, {"AFFECTS", "IMPLEMENTS"})

\* the tracked items the tracker may hold that have no node in the graph
Unloaded ==
    {r \in Range(SelectSeq(JiraPool, LAMBDA x : "key" \in DOMAIN x)) \cup {JiraEdited} :
        JiraId(r.key) \notin DOMAIN nodes}

\* C36: in every state of the graph each Technology node has an incoming
\* INVOLVES edge and each Component node an incoming AFFECTS or IMPLEMENTS
\* edge; and the technology link of a mention in the text of an item that has
\* no node leaves the graph as it is (no Technology node, no edge).
C36_NoOrphanTags ==
    /\ NoOrphanTags(nodes, edges)
    /\ \A r \in Unloaded :
          \A m \in Mentioned(r.summary, r.description) :
              _create_technology_link(Graph, "JiraIssue", r.key, m) = Graph

\* the pass has linked technologies and components, and the tracker's P-2,
\* whose text mentions technologies, has no node
C36_Witness ==
    /\ pc \in {"cleanup", "done"}
    /\ NodesOf(nodes, "Technology") # {}
    /\ NodesOf(nodes, "Component") # {}
    /\ \E r \in Unloaded : r.key = K2 /\ Mentioned(r.summary, r.description) # {}

\* the same for the graph of CrossReferenceETL, whose queries MERGE the tag
\* node and the edge to it in one statement for a row that MATCH has bound
NoOrphanTagsInStore == NoOrphanTags(nodes, edges)

-----------------------------------------------------------------------------
(* Properties of the page loops *)

\* the matches the page loop of _fetch_jira_batch has not yet passed
Remaining == Len(OpenMatches(upJira)) - page_start

\* C37: the page loop of _fetch_jira_batch exits for every batch size from 0
\* on: every iteration after which the loop goes on has brought start_at
\* closer to the end of the finitely many matches, which it never passes
\* while the loop runs.
C37_PaginationTerminates ==
    /\ [][(pc = "search_issues" /\ pc' = "search_issues") => Remaining' < Remaining]_vars
    /\ [](pc = "search_issues" => Remaining >= 0)

\* with a batch size of 1 or more the loop does exit
PositiveBatchTerminates ==
    /\ [][(pc = "search_issues" /\ pc' = "search_issues" /\ hist.batch_size > 0)
             => Remaining' < Remaining]_vars
    /\ [](pc = "search_issues" /\ hist.batch_size > 0 => Remaining >= 0)

\* the page loop of JiraETL.run_etl, whose page size is fixed: an iteration
\* after which the loop goes on has advanced start_at by a full page of
\* records, and a request that fails for good moves on to the next project
RunEtlPagesAdvance ==
    [][(pc \in {"fetch", "transform", "load"})
          => /\ page_start' >= page_start
             /\ (page_start' > page_start =>
                    page_start' <= Len(Matching(project_no)))
             /\ (hist'.fetchRaised /\ ~hist.fetchRaised =>
                    pc' = "run_etl" /\ project_no' = project_no + 1)]_vars

-----------------------------------------------------------------------------
(* Properties of the retention filter *)

\* sub is obtained from list by deleting elements
RECURSIVE IsSubList(_, _)
IsSubList(sub, list) ==
    IF sub = << >> THEN TRUE
    ELSE IF list = << >> THEN FALSE
    ELSE IF Head(sub) = Head(list) THEN IsSubList(Tail(sub), Tail(list))
    ELSE IsSubList(sub, Tail(list))

\* what the filter returned: the part of all_issues behind the open issues
filtered == SubSeq(jira_issues, Len(hist.open_issues) + 1, Len(jira_issues))

\* a closed issue whose key occurs in the description of an open one
Referenced(c) == \E o \in Range(hist.open_issues) : Contains(o.description, c.key)

\* C39: the filter's result is fixed by the closed list, the open list and
\* the option alone, whatever the store holds: it is the closed list without
\* the issues no open description mentions, in the closed list's order and
\* with no issue added or repeated, and it is empty when the option is off;
\* the store is the same before and after.
C39_FilterIsPure ==
    /\ [][(pc = "filter" /\ pc' = "filtered") => nodes' = nodes /\ edges' = edges]_vars
    /\ [](pc = "filtered" =>
            /\ IsSubList(filtered, hist.recent_closed)
            /\ \A i \in 1..Len(filtered) : Referenced(filtered[i])
            /\ Len(filtered) =
                 Cardinality({i \in 1..Len(hist.recent_closed) :
                                 includeClosed /\ Referenced(hist.recent_closed[i])})
            /\ (~includeClosed => filtered = << >>))

C39_Witness ==
    /\ pc = "filtered"
    /\ Len(hist.recent_closed) = 3
    /\ Len(filtered) = 2
    /\ hist.recent_closed[2] \notin Range(filtered)
    /\ nodes # << >>

-----------------------------------------------------------------------------
(* Properties of GitHubETL *)

\* the run has ended, the store has accepted every write whose parameters
\* were all supplied, and every session has opened
AcceptingRun == pc = "etl_done" /\ ~hist.storeRejected /\ ~hist.sessionRaised

\* C38: after run_etl against a store that accepts every write whose
\* parameters are all supplied, every issue that fetch_repository_issues
\* returned exists as a GitHubIssue node keyed by its repository and number.
C38_FetchedIssuesLoaded ==
    AcceptingRun =>
        \A i \in 1..Len(hist.fetched_issues) :
            GitHubId(hist.fetched_issues[i].repository,
                     hist.fetched_issues[i].number) \in DOMAIN nodes

\* the default issue query loads the fetched record once the record carries
\* the names the query binds
NamedRecordLoads ==
    \A i \in 1..Len(hist.fetched_issues) :
        \E g \in {github_cypher(Graph, WithQueryNames(hist.fetched_issues[i]))} :
            /\ ~Raised(g)
            /\ GitHubId(hist.fetched_issues[i].repository,
                        hist.fetched_issues[i].number) \in DOMAIN g.nodes

\* as run, no write of the default issue query succeeds
NoIssueEverLoaded == \A id \in DOMAIN nodes : id[1] # "GitHubIssue"

UsersOf(ns, person) == {id \in DOMAIN ns : id[1] = "User" /\ id[2] = person}

\* C31: after the issues, the pull requests and the tracked items are loaded
\* by runs that the store accepted, a person whose string is the author of
\* an issue, the author of a pull request and the reporter or assignee of a
\* tracked item has exactly one User node, and the CREATED_BY, REPORTED_BY
\* and ASSIGNED_TO edges of those records point to it.
C31_SharedUserIdentity ==
    AcceptingRun =>
        \A i \in Range(hist.fetched_issues), p \in Range(hist.fetched_prs),
           t \in Range(hist.tracked) :
            (i.author = p.author /\ (t.reporter = i.author \/ t.assignee = <<i.author>>))
            => \E u \in UsersOf(nodes, i.author) :
                  /\ UsersOf(nodes, i.author) = {u}
                  /\ <<"CREATED_BY", GitHubId(i.repository, i.number), u>> \in DOMAIN edges
                  /\ <<"CREATED_BY", PullRequestId(p.repository, p.number), u>>
                        \in DOMAIN edges
                  /\ (t.reporter = i.author =>
                        <<"REPORTED_BY", IssueId(t.key), u>> \in DOMAIN edges)
                  /\ (t.assignee = <<i.author>> =>
                        <<"ASSIGNED_TO", IssueId(t.key), u>> \in DOMAIN edges)

\* the pull requests and the tracked items do share the User node of a person
PrAndTrackedShareUser ==
    AcceptingRun =>
        \A p \in Range(hist.fetched_prs), t \in Range(hist.tracked) :
            t.reporter = p.author
            => /\ UsersOf(nodes, p.author) = {UserId(p.author)}
               /\ <<"CREATED_BY", PullRequestId(p.repository, p.number),
                    UserId(p.author)>> \in DOMAIN edges
               /\ <<"REPORTED_BY", IssueId(t.key), UserId(p.author)>> \in DOMAIN edges

\* were the issue query given its parameters, the author of an issue who is
\* also the author of a loaded pull request would have two User nodes
LoginAndNameSplit ==
    AcceptingRun =>
        \A i \in Range(hist.fetched_issues), p \in Range(hist.fetched_prs) :
            i.author = p.author
            => UsersOf(github_cypher(Graph, WithQueryNames(i)).nodes, i.author)
                  = {UserId(i.author), UserLoginId(i.author)}

\* the node a loader writes for a record
WrittenNode(r) ==
    IF "merged" \in DOMAIN r THEN PullRequestId(r.repository, r.number)
    ELSE GitHubId(r.repository, r.number)

Loading == pc \in {"load_issues", "load_prs"}

\* C32: in load_issues_to_neo4j and load_prs_to_neo4j a write that the store
\* rejects leaves what is written in place and the loop goes on with the next
\* record; the loader returns with every record of the batch passed to the
\* store in order and every record that was not rejected written, and run_etl
\* goes on with the pull requests or the next repository (a loader that has
\* passed a record to the store ends in no other way).
C32_PerRecordContainment ==
    /\ [][(Loading /\ hist'.givenUp # hist.givenUp)
            => /\ pc' = pc /\ idx' = idx + 1 /\ github_issues' = github_issues
               /\ nodes' = nodes /\ edges' = edges]_vars
    /\ [][(Loading /\ ~Loading' /\ hist.writes # << >>)
            => /\ hist.writes = Map(github_issues, RecordId)
               /\ \A r \in Range(github_issues) :
                     RecordId(r) \in hist.givenUp \/ WrittenNode(r) \in DOMAIN nodes
               /\ \/ pc = "load_issues" /\ pc' = "fetch_prs"
                  \/ pc = "load_prs" /\ pc' = "run_etl"
                        /\ project_no' = project_no + 1]_vars

\* a batch of pull requests whose first write was rejected and whose second
\* is written, in a repository that is not the last
C32_Witness ==
    /\ pc = "run_etl"
    /\ project_no = 2
    /\ Len(github_issues) = 2
    /\ RecordId(github_issues[1]) \in hist.givenUp
    /\ WrittenNode(github_issues[1]) \notin DOMAIN nodes
    /\ WrittenNode(github_issues[2]) \in DOMAIN nodes

\* JiraETL.load_to_neo4j: a rejected write leaves the store as it is and the
\* loop goes on; the loader returns after the last record and run_etl goes on
\* with the next page or the next project
JiraLoadContained ==
    /\ [][(pc = "load" /\ hist'.givenUp # hist.givenUp)
            => /\ pc' = "load" /\ idx' = idx + 1 /\ jira_issues' = jira_issues
               /\ nodes' = nodes /\ edges' = edges]_vars
    /\ [][(pc = "load" /\ pc' # "load" /\ ~hist'.broke)
            => /\ idx = Len(jira_issues) + 1
               /\ \/ pc' = "fetch" /\ project_no' = project_no
                  \/ pc' = "run_etl" /\ project_no' = project_no + 1]_vars
====
